---- MODULE Spec2Model ----
(***************************************************************************)
(* Model of the tth per-session streaming pipeline:                        *)
(*   - control/mapper.py      resolve, merge_controls                      *)
(*   - control/personas.py    the persona presets                          *)
(*   - pipeline/session.py    Session, cancel_current_turn                 *)
(*   - pipeline/orchestrator.py  run_turn, llm_producer,                   *)
(*                               tts_avatar_consumer                       *)
(*   - api/routes.py          session_stream, recv_loop, send_loop, _run   *)
(*   - adapters/avatar/stub.py   StubAvatarAdapter.infer_stream            *)
(*   - alignment/drift.py     DriftController                              *)
(*   - adapters/realtime/openai_realtime.py  OpenAIRealtimeAdapter         *)
(*                                                                         *)
(* One asyncio event loop runs every task.  An action of the model is one  *)
(* callback of the loop: a task runs from the point where it was resumed   *)
(* to the next point where it really suspends.  Queue puts and gets only   *)
(* suspend when the queue is full or empty; a pull from a generator always *)
(* suspends.  Floats are integers scaled by 100 (controls) or integer      *)
(* milliseconds (durations, timestamps).                                   *)
(***************************************************************************)
EXTENDS Integers, Sequences, FiniteSets, TLC

\* ------------------------------------------------------------------ bounds

\* user_text events handled on the connection
MaxTurns == 2
\* tokens the LLM streams of the connection yield at most, all turns together
MaxTokens == 2
\* audio chunks the TTS streams of the connection yield at most
MaxChunks == 3
\* generator streams of the connection that raise at most
MaxFailures == 1
\* capacity of the outbound queue in the model (64 in routes.py:73)
OutQCap == 2
\* operations on the session registry
MaxOps == 4
\* samples a drift tracker on its own records between two resets
MaxSamples == 11
\* calls of connect on the combined generator
MaxConnects == 2
\* responses the combined generator is asked for
MaxResponses == 2
\* deltas the upstream of the combined generator sends at most, all
\* responses together
MaxDeltas == 2

\* --------------------------------------------------------------- constants

\* orchestrator.py:19
MIN_SENTENCE_LEN == 10
\* orchestrator.py:47, asyncio.Queue(maxsize=2)
SentQCap == 2
\* avatar/stub.py:29
FPS == 25
\* alignment/drift.py:18
DriftWindow == 10

Turns == 1..MaxTurns

\* ---------------------------------------------------------------- controls
\* core/types.py: the zero-argument values.  Floats are scaled by 100.

EmotionControl ==
    [label |-> "neutral", intensity |-> 50, valence |-> 0, arousal |-> 0]

CharacterControl ==
    [persona_id |-> "default", speech_rate |-> 100, pitch_shift |-> 0,
     expressivity |-> 60, motion_gain |-> 100]

TurnControl == [emotion |-> EmotionControl, character |-> CharacterControl]

\* control/personas.py: _PRESETS
PRESETS ==
    [default |->
        [emotion |-> [label |-> "neutral", intensity |-> 50, valence |-> 0,
                      arousal |-> 0],
         character |-> [persona_id |-> "default", speech_rate |-> 100,
                        pitch_shift |-> 0, expressivity |-> 60,
                        motion_gain |-> 100]],
     professional |->
        [emotion |-> [label |-> "neutral", intensity |-> 30, valence |-> 10,
                      arousal |-> -10],
         character |-> [persona_id |-> "professional", speech_rate |-> 95,
                        pitch_shift |-> 0, expressivity |-> 40,
                        motion_gain |-> 70]],
     casual |->
        [emotion |-> [label |-> "happy", intensity |-> 40, valence |-> 30,
                      arousal |-> 10],
         character |-> [persona_id |-> "casual", speech_rate |-> 105,
                        pitch_shift |-> 0, expressivity |-> 70,
                        motion_gain |-> 110]],
     excited |->
        [emotion |-> [label |-> "happy", intensity |-> 80, valence |-> 70,
                      arousal |-> 60],
         character |-> [persona_id |-> "excited", speech_rate |-> 120,
                        pitch_shift |-> 5, expressivity |-> 90,
                        motion_gain |-> 150]]]

\* control/personas.py: get_persona_defaults
get_persona_defaults(persona_id) ==
    IF persona_id \in DOMAIN PRESETS THEN PRESETS[persona_id]
    ELSE PRESETS["default"]

\* A wrong resolve: the character is kept whenever it differs from the type
\* default in any field.
resolve_structural(user_control, persona_defaults) ==
    [emotion |-> IF user_control.emotion = EmotionControl
                 THEN persona_defaults.emotion ELSE user_control.emotion,
     character |-> IF user_control.character = CharacterControl
                   THEN persona_defaults.character
                   ELSE user_control.character]

\* control/mapper.py: resolve
resolve(user_control, persona_defaults) ==
    LET user_emotion_is_default == user_control.emotion = EmotionControl
        user_character_is_default ==
            user_control.character.persona_id = "default"
    IN  [emotion |-> IF user_emotion_is_default
                     THEN persona_defaults.emotion
                     ELSE user_control.emotion,
         character |-> IF user_character_is_default
                       THEN persona_defaults.character
                       ELSE user_control.character]

\* A wrong merge: the base wins over the override.
merge_controls_base_wins(base, override) ==
    [emotion |-> IF base.emotion # EmotionControl THEN base.emotion
                 ELSE override.emotion,
     character |-> IF base.character # CharacterControl THEN base.character
                   ELSE override.character]

\* control/mapper.py: merge_controls
merge_controls(base, override) ==
    LET base_emotion_is_default == base.emotion = EmotionControl
        base_character_is_default == base.character = CharacterControl
        over_emotion_is_default == override.emotion = EmotionControl
        over_character_is_default == override.character = CharacterControl
    IN  [emotion |-> IF ~over_emotion_is_default THEN override.emotion
                     ELSE IF ~base_emotion_is_default THEN base.emotion
                     ELSE EmotionControl,
         character |-> IF ~over_character_is_default THEN override.character
                       ELSE IF ~base_character_is_default THEN base.character
                       ELSE CharacterControl]

\* -------------------------------------------------------------------- text
\* A string is a sequence of one-character strings.

IsSpace(c) == c \in {" ", "\n", "\t"}

RECURSIVE lstrip(_)
lstrip(s) == IF s # <<>> /\ IsSpace(Head(s)) THEN lstrip(Tail(s)) ELSE s

RECURSIVE rstrip(_)
rstrip(s) ==
    IF s # <<>> /\ IsSpace(s[Len(s)]) THEN rstrip(SubSeq(s, 1, Len(s) - 1))
    ELSE s

\* str.strip()
strip(s) == rstrip(lstrip(s))

\* orchestrator.py:18
SENTENCE_ENDS == {".", "!", "?", "\n"}

\* A wrong flush rule: every sentence end flushes.
flush_no_min(token, buf) == token[Len(token)] \in SENTENCE_ENDS

\* orchestrator.py:60, the flush rule of llm_producer (buf already holds token)
flush(token, buf) ==
    token[Len(token)] \in SENTENCE_ENDS /\ Len(strip(buf)) >= MIN_SENTENCE_LEN

\* The end-of-stream sentinel (None) of the sentence queue.  No sentence equals
\* it: a sentence is a sequence of one-character strings.
Sentinel == <<"None">>

TokHello == <<"H", "e", "l", "l", "o", " ", "t", "h", "e", "r", "e", ".">>
TokDr == <<" ", "D", "r", ".">>
TokSmith == <<" ", "S", "m", "i", "t", "h", " ", "c", "a", "m", "e", ".">>

\* ------------------------------------------------------------------ avatar

Max(a, b) == IF a >= b THEN a ELSE b

\* Python's round() of num/den for non-negative integers: half to even.
round(num, den) ==
    LET q == num \div den
        r == num % den
    IN  IF 2 * r < den THEN q
        ELSE IF 2 * r > den THEN q + 1
        ELSE IF q % 2 = 0 THEN q ELSE q + 1

\* A wrong frame count: a chunk too short for one frame yields none.
frames_no_min(duration_ms) == round(duration_ms * FPS, 1000)

\* avatar/stub.py:35, frames = max(1, round(duration_ms / 1000 * FPS))
frames(duration_ms) == Max(1, round(duration_ms * FPS, 1000))

\* avatar/stub.py:36, frame_duration_ms = 1000 / FPS
frame_duration_ms == 1000 \div FPS

\* A wrong numbering: every chunk starts again at 0.
FrameIndexPerChunk(base, i) == i

\* avatar/stub.py:43, frame_index = base_idx + i
FrameIndex(base, i) == base + i

\* ------------------------------------------------------------------- drift

\* A wrong ring: no sample is ever dropped.
deque_append_unbounded(h, x) == Append(h, x)

\* A wrong ring: once full it keeps its first samples and drops the new one.
deque_append_keeps_oldest(h, x) ==
    IF Len(h) >= DriftWindow THEN h ELSE Append(h, x)

\* deque(maxlen=window).append
deque_append(h, x) ==
    IF Len(h) >= DriftWindow THEN Append(Tail(h), x) ELSE Append(h, x)

RECURSIVE sum(_)
sum(h) == IF h = <<>> THEN 0 ELSE Head(h) + sum(Tail(h))

\* DriftController.mean_drift_ms (drift.py:28-32), as the fraction
\* <<numerator, denominator>>: 0.0 for no sample, else sum / len.
mean_drift_ms(h) == IF h = <<>> THEN <<0, 1>> ELSE <<sum(h), Len(h)>>

abs(d) == IF d < 0 THEN -d ELSE d

\* DriftController.max_drift_ms (drift.py:34-38): 0.0 for no sample, else
\* max(abs(d) for d in history).
RECURSIVE max_drift_ms(_)
max_drift_ms(h) ==
    IF h = <<>> THEN 0 ELSE Max(abs(Head(h)), max_drift_ms(Tail(h)))

\* ------------------------------------------------------------------- state

VARIABLES
    \* the environment: the session's persona, what the LLM streams for a
    \* user text, the durations the TTS may give a chunk, the controls the
    \* client sends with user_text and with control_update, the user_text
    \* events the client sends at most, the tokens the LLM streams of the
    \* connection yield at most
    persona_defaults, llm_script, tts_durs, user_controls, update_controls,
    turn_limit, token_limit,
    \* a call of resolve or merge_controls on its own: the two arguments and
    \* the returned value; the operations called on the session registry, or
    \* the samples a drift tracker on its own recorded since its last reset
    arg_a, arg_b, ret, oplog,
    \* OpenAIRealtimeAdapter (adapters/realtime/openai_realtime.py:41-47):
    \* _is_connected, _ws, _listener_task, _event_queue; the caller of
    \* connect and close; the upstream end of the transport with the
    \* messages on their way to the adapter; the turn that uses the adapter;
    \* bookkeeping for the properties
    is_connected, rt_ws, listener_task, event_queue, rt_caller, upstream,
    rt_turn, rt_book,
    \* a second session_stream on the same session id (api/routes.py:62-143):
    \* its WebSocket, the position of its recv_loop and the task it awaits
    conn2,
    \* Session (pipeline/session.py:28-43)
    state, pending_control, current_turn_task, history, drift,
    \* SessionManager._sessions (pipeline/session.py:74-75)
    sessions,
    \* session_stream (api/routes.py:62-143): the position of recv_loop and
    \* the event it is handling, the position of send_loop, the events put
    \* on output_q so far (enq), how many of them send_loop has taken
    \* (nsent) and written to the transport (nwritten, written); the
    \* WebSocket (ws) and the message recv_loop read last (raw)
    rpc, revt, spc, nsent, nwritten, enq, ws, raw, written,
    \* the turn tasks _run (api/routes.py:112-120), one per user_text:
    \* position, pending CancelledError, the future of asyncio.gather, the
    \* done-callbacks of the sub-tasks not yet run, the control argument,
    \* the resolved control, the sub-task that must run next
    nturns, tpc, tcancel, outer, pendcb, tctl, resolved, must_run,
    \* llm_producer (orchestrator.py:52-65): position, tokens pulled, buf,
    \* full_response; sentence_q
    ppc, pk, buf, full_response, sq,
    \* tts_avatar_consumer (orchestrator.py:68-102): position, chunks pulled
    \* from the current TTS stream, the current chunk, frames pulled from the
    \* current avatar stream, the avatar's base_idx, frame_counter, the
    \* sentences TTS was called with
    cpc, nck, chunk, fi, base_idx, frame_counter, tts_calls,
    \* bookkeeping for the properties: turns cancelled while their task was
    \* not done, the sub-tasks in which a generator raised, the control each
    \* user_text carried, the control_update stored when it arrived, the
    \* messages of the request the LLM adapter built for each turn, the
    \* controls of stored control_updates that a later control_update with
    \* another control replaced (since the last user_text, and before the
    \* user_text of each turn)
    cancelled_live, gen_failed, msg_ctl, upd_seen, last_update, llm_request,
    upd_replaced

callVars == <<arg_a, arg_b, ret, oplog>>
rtVars == <<is_connected, rt_ws, listener_task, event_queue, rt_caller,
            upstream, rt_turn, rt_book>>
envVars == <<persona_defaults, llm_script, tts_durs, user_controls,
             update_controls, turn_limit, token_limit, callVars, rtVars,
             conn2>>
sessVars == <<state, pending_control, current_turn_task, history, drift,
              sessions>>
connVars == <<rpc, revt, spc, nsent, nwritten, ws, raw, written>>
taskVars == <<nturns, tpc, tcancel, outer, tctl, resolved>>
prodVars == <<ppc, pk, buf, full_response>>
consVars == <<cpc, nck, chunk, fi, base_idx, frame_counter, tts_calls>>
bookVars == <<cancelled_live, gen_failed, msg_ctl, upd_seen, last_update,
              llm_request, upd_replaced>>

vars == <<envVars, sessVars, connVars, enq, taskVars, pendcb, must_run,
          prodVars, sq, consVars, bookVars>>

\* Optional values: <<>> is None, <<x>> is x.
NoControl == <<>>

\* The session of the connection.
SessionId == "s1"

\* ------------------------------------------------------------------ events
\* The outbound events of core/types.py.  turn is bookkeeping: the turn whose
\* task put the event.

Event(type, n) ==
    [type |-> type, turn |-> n, token |-> <<>>, duration_ms |-> 0,
     timestamp_ms |-> 0, frame_index |-> 0, drift_ms |-> 0, code |-> ""]

TextDeltaEvent(n, token) == [Event("text_delta", n) EXCEPT !.token = token]

AudioChunkEvent(n, c) ==
    [Event("audio_chunk", n) EXCEPT !.duration_ms = c.duration_ms,
                                    !.timestamp_ms = c.timestamp_ms]

VideoFrameEvent(n, ts, idx, d) ==
    [Event("video_frame", n) EXCEPT !.timestamp_ms = ts, !.frame_index = idx,
                                    !.drift_ms = d]

TurnCompleteEvent(n) == Event("turn_complete", n)

ErrorEvent(n) == [Event("error", n) EXCEPT !.code = "turn_error"]

\* output_q (api/routes.py:73): the events put and not yet taken.
output_q == SubSeq(enq, nsent + 1, Len(enq))

\* A wrong output_q: it is never full.
OutNeverFull(e) == FALSE

\* asyncio.Queue.full() of output_q after the events e were put
OutFull(e) == Len(e) - nsent >= OutQCap

NoChunk == [duration_ms |-> 0, timestamp_ms |-> 0]

RECURSIVE SumTo(_, _)
SumTo(f, n) == IF n = 0 THEN 0 ELSE f[n] + SumTo(f, n - 1)

\* Tokens the LLM streams have yielded so far.
TokensPulled == SumTo(pk, MaxTurns)

\* Audio chunks the TTS streams have yielded so far.
ChunksPulled ==
    Cardinality({i \in 1..Len(enq) : enq[i].type = "audio_chunk"})
    + Cardinality({n \in Turns : cpc[n] = "put_audio"})

\* ---------------------------------------------------------------- producer
\* llm_producer (orchestrator.py:52-65).  Positions: start (task created),
\* pull (suspended in the LLM stream), put_text / put_sent / put_tail /
\* put_none (about to put: suspended only while the queue is full), done_ok,
\* failed, cancelled.

ProdBlocked == {"put_text", "put_sent", "put_tail", "put_none"}
Finished == {"done_ok", "failed", "cancelled"}

\* A wrong llm_producer: the sentinel is not pushed at the end.
RECURSIVE ProdRunNoSentinel(_, _)
ProdRunNoSentinel(n, g) ==
    CASE g.pc = "put_text" ->
            IF OutFull(g.enq) THEN g
            ELSE LET tok == llm_script[g.k]
                     g1 == [g EXCEPT !.enq = Append(@, TextDeltaEvent(n, tok)),
                                     !.buf = @ \o tok,
                                     !.full = Append(@, tok)]
                 IN  IF flush(tok, g1.buf)
                     THEN ProdRunNoSentinel(n, [g1 EXCEPT !.pc = "put_sent"])
                     ELSE [g1 EXCEPT !.pc = "pull"]
      [] g.pc = "put_sent" ->
            IF Len(g.sq) >= SentQCap THEN g
            ELSE [g EXCEPT !.sq = Append(@, strip(g.buf)), !.buf = <<>>,
                           !.pc = "pull"]
      [] g.pc = "end" ->
            IF strip(g.buf) # <<>>
            THEN ProdRunNoSentinel(n, [g EXCEPT !.pc = "put_tail"])
            ELSE [g EXCEPT !.pc = "done_ok"]
      [] g.pc = "put_tail" ->
            IF Len(g.sq) >= SentQCap THEN g
            ELSE [g EXCEPT !.sq = Append(@, strip(g.buf)), !.pc = "done_ok"]
      [] OTHER -> g

\* The producer of turn n runs from position g.pc until it suspends.
\* g = [pc, k (index of the token in hand), buf, full, sq, enq].
RECURSIVE ProdRun(_, _)
ProdRun(n, g) ==
    CASE g.pc = "put_text" ->
            \* await output_q.put(TextDeltaEvent(token=token)); buf += token
            IF OutFull(g.enq) THEN g
            ELSE LET tok == llm_script[g.k]
                     g1 == [g EXCEPT !.enq = Append(@, TextDeltaEvent(n, tok)),
                                     !.buf = @ \o tok,
                                     !.full = Append(@, tok)]
                 IN  IF flush(tok, g1.buf)
                     THEN ProdRun(n, [g1 EXCEPT !.pc = "put_sent"])
                     ELSE [g1 EXCEPT !.pc = "pull"]
      [] g.pc = "put_sent" ->
            \* await sentence_q.put(buf.strip()); buf = ""
            IF Len(g.sq) >= SentQCap THEN g
            ELSE [g EXCEPT !.sq = Append(@, strip(g.buf)), !.buf = <<>>,
                           !.pc = "pull"]
      [] g.pc = "end" ->
            \* the LLM stream is over: if buf.strip(): ...
            IF strip(g.buf) # <<>>
            THEN ProdRun(n, [g EXCEPT !.pc = "put_tail"])
            ELSE ProdRun(n, [g EXCEPT !.pc = "put_none"])
      [] g.pc = "put_tail" ->
            IF Len(g.sq) >= SentQCap THEN g
            ELSE ProdRun(n, [g EXCEPT !.sq = Append(@, strip(g.buf)),
                                      !.pc = "put_none"])
      [] g.pc = "put_none" ->
            \* await sentence_q.put(None)
            IF Len(g.sq) >= SentQCap THEN g
            ELSE [g EXCEPT !.sq = Append(@, Sentinel), !.pc = "done_ok"]
      [] OTHER -> g

ProdState(n, pc) ==
    [pc |-> pc, k |-> pk[n], buf |-> buf[n], full |-> full_response[n],
     sq |-> sq[n], enq |-> enq]

\* The producer of turn n is left in g; a finished sub-task schedules its
\* done-callback.
ProdSet(n, g) ==
    /\ ppc' = [ppc EXCEPT ![n] = g.pc]
    /\ pk' = [pk EXCEPT ![n] = g.k]
    /\ buf' = [buf EXCEPT ![n] = g.buf]
    /\ full_response' = [full_response EXCEPT ![n] = g.full]
    /\ sq' = [sq EXCEPT ![n] = g.sq]
    /\ enq' = g.enq
    /\ pendcb' = IF g.pc \in Finished THEN pendcb \cup {<<n, "P">>} ELSE pendcb

\* The text of the n-th user_text.
UserText(n) == <<"q">> \o [i \in 1..n |-> "?"]

\* build_llm_system_prompt (control/mapper.py:41-59): the parts of the
\* prompt, the tone as <<label, intensity>>.
build_llm_system_prompt(control, persona_name) ==
    LET e == control.emotion
        c == control.character
    IN  <<<<"You are", persona_name>>>>
        \o (IF e.label # "neutral" \/ e.intensity > 30
            THEN <<<<"tone", e.label, e.intensity>>>> ELSE <<>>)
        \o (IF c.speech_rate < 85 THEN <<<<"slowly">>>>
            ELSE IF c.speech_rate > 120 THEN <<<<"brisk">>>> ELSE <<>>)
        \o (IF c.expressivity > 70 THEN <<<<"expressive">>>> ELSE <<>>)
        \o <<<<"brief">>>>

\* OpenAIChatAdapter.infer_stream (adapters/llm/openai_api.py:32-36): the
\* messages of the request: the system prompt, the history of the context,
\* the input.
messages(system_prompt, context_history, input) ==
    <<[role |-> "system", content |-> system_prompt]>>
    \o context_history
    \o <<[role |-> "user", content |-> input]>>

\* First step of llm_producer: session.transition("LLM_RUN"), then the first
\* pull, in which infer_stream builds its request from the text, the
\* resolved control and session.context (orchestrator.py:53-55).  gather
\* scheduled the consumer's first step right behind it.
PStart(n) ==
    /\ must_run = 0
    /\ ppc[n] = "start"
    /\ state' = "LLM_RUN"
    /\ ppc' = [ppc EXCEPT ![n] = "pull"]
    /\ must_run' = n
    /\ llm_request' =
           [llm_request EXCEPT
               ![n] = messages(build_llm_system_prompt(resolved[n][1],
                                                       "Assistant"),
                               history, UserText(n))]
    /\ UNCHANGED <<envVars, pending_control, current_turn_task, history,
                   drift, sessions, connVars, enq, taskVars, pendcb, pk, buf,
                   full_response, sq, consVars, cancelled_live, gen_failed,
                   msg_ctl, upd_seen, last_update, upd_replaced>>

\* The LLM stream yields its next token.
PToken(n) ==
    /\ must_run = 0
    /\ ppc[n] = "pull"
    /\ TokensPulled < token_limit
    /\ pk[n] < Len(llm_script)
    /\ ProdSet(n, ProdRun(n, [ProdState(n, "put_text") EXCEPT !.k = pk[n] + 1]))
    /\ UNCHANGED <<envVars, sessVars, connVars, taskVars, must_run, consVars,
                   bookVars>>

\* The LLM stream ends.
PEnd(n) ==
    /\ must_run = 0
    /\ ppc[n] = "pull"
    /\ ProdSet(n, ProdRun(n, ProdState(n, "end")))
    /\ UNCHANGED <<envVars, sessVars, connVars, taskVars, must_run, consVars,
                   bookVars>>

\* The LLM stream raises.
PFail(n) ==
    /\ must_run = 0
    /\ ppc[n] = "pull"
    /\ Cardinality(gen_failed) < MaxFailures
    /\ ppc' = [ppc EXCEPT ![n] = "failed"]
    /\ pendcb' = pendcb \cup {<<n, "P">>}
    /\ gen_failed' = gen_failed \cup {<<n, "P">>}
    /\ UNCHANGED <<envVars, sessVars, connVars, enq, taskVars, must_run, pk,
                   buf, full_response, sq, consVars, cancelled_live, msg_ctl,
                   upd_seen, last_update, llm_request, upd_replaced>>

\* A put of the producer that found its queue full goes on.
PResume(n) ==
    /\ must_run = 0
    /\ ppc[n] \in ProdBlocked
    /\ ProdRun(n, ProdState(n, ppc[n])).pc # ppc[n]
    /\ ProdSet(n, ProdRun(n, ProdState(n, ppc[n])))
    /\ UNCHANGED <<envVars, sessVars, connVars, taskVars, must_run, consVars,
                   bookVars>>

\* ---------------------------------------------------------------- consumer
\* tts_avatar_consumer (orchestrator.py:68-102).  Positions: start, get
\* (sentence_q.get, suspended only while the queue is empty), tts_pull
\* (suspended in the TTS stream), put_audio, av_pull (suspended in the avatar
\* stream), put_video, done_ok, failed, cancelled.

ConsBlocked == {"get", "put_audio", "put_video"}

\* A wrong tts_avatar_consumer: the sentinel is taken for a sentence.
ConsRunNoBreak(n, g) ==
    CASE g.pc = "get" ->
            IF g.sq = <<>> THEN g
            ELSE [g EXCEPT !.sq = Tail(@), !.nck = 0,
                           !.calls = Append(@, Head(g.sq)),
                           !.pc = "tts_pull"]
      [] g.pc = "put_audio" ->
            IF OutFull(g.enq) THEN g
            ELSE [g EXCEPT !.enq = Append(@, AudioChunkEvent(n, g.chunk)),
                           !.state = "AVATAR_RUN", !.base = g.fc, !.fi = 0,
                           !.pc = "av_pull"]
      [] g.pc = "put_video" ->
            IF OutFull(g.enq) THEN g
            ELSE [g EXCEPT !.enq = Append(@, VideoFrameEvent(n,
                                g.chunk.timestamp_ms + g.fi * frame_duration_ms,
                                FrameIndex(g.base, g.fi),
                                g.fi * frame_duration_ms)),
                           !.fc = @ + 1, !.fi = @ + 1, !.pc = "av_pull"]
      [] OTHER -> g

\* The consumer of turn n runs from position g.pc until it suspends.
\* g = [pc, sq, enq, state, nck, chunk, fi, base, fc, calls].
ConsRun(n, g) ==
    CASE g.pc = "get" ->
            \* sentence = await sentence_q.get()
            IF g.sq = <<>> THEN g
            ELSE IF Head(g.sq) = Sentinel
            THEN [g EXCEPT !.sq = Tail(@), !.pc = "done_ok"]
            ELSE [g EXCEPT !.sq = Tail(@), !.nck = 0,
                           !.calls = Append(@, Head(g.sq)),
                           !.pc = "tts_pull"]
      [] g.pc = "put_audio" ->
            \* await output_q.put(AudioChunkEvent(...));
            \* session.transition("AVATAR_RUN"); ctx = {..., frame_counter}
            IF OutFull(g.enq) THEN g
            ELSE [g EXCEPT !.enq = Append(@, AudioChunkEvent(n, g.chunk)),
                           !.state = "AVATAR_RUN", !.base = g.fc, !.fi = 0,
                           !.pc = "av_pull"]
      [] g.pc = "put_video" ->
            \* await output_q.put(VideoFrameEvent(...)); frame_counter += 1
            IF OutFull(g.enq) THEN g
            ELSE [g EXCEPT !.enq = Append(@, VideoFrameEvent(n,
                                g.chunk.timestamp_ms + g.fi * frame_duration_ms,
                                FrameIndex(g.base, g.fi),
                                g.fi * frame_duration_ms)),
                           !.fc = @ + 1, !.fi = @ + 1, !.pc = "av_pull"]
      [] OTHER -> g

ConsState(n, pc) ==
    [pc |-> pc, sq |-> sq[n], enq |-> enq, state |-> state, nck |-> nck[n],
     chunk |-> chunk[n], fi |-> fi[n], base |-> base_idx[n],
     fc |-> frame_counter[n], calls |-> tts_calls[n]]

ConsSet(n, g) ==
    /\ cpc' = [cpc EXCEPT ![n] = g.pc]
    /\ sq' = [sq EXCEPT ![n] = g.sq]
    /\ enq' = g.enq
    /\ state' = g.state
    /\ nck' = [nck EXCEPT ![n] = g.nck]
    /\ chunk' = [chunk EXCEPT ![n] = g.chunk]
    /\ fi' = [fi EXCEPT ![n] = g.fi]
    /\ base_idx' = [base_idx EXCEPT ![n] = g.base]
    /\ frame_counter' = [frame_counter EXCEPT ![n] = g.fc]
    /\ tts_calls' = [tts_calls EXCEPT ![n] = g.calls]
    /\ pendcb' = IF g.pc \in Finished THEN pendcb \cup {<<n, "C">>} ELSE pendcb

ConsFrame == <<envVars, pending_control, current_turn_task, history, sessions,
               connVars, taskVars, prodVars, bookVars>>

\* First step of tts_avatar_consumer, right behind the producer's:
\* session.transition("TTS_RUN"), then the first sentence_q.get().
CStart(n) ==
    /\ must_run = n
    /\ cpc[n] = "start"
    /\ ConsSet(n, ConsRun(n, [ConsState(n, "get") EXCEPT !.state = "TTS_RUN"]))
    /\ must_run' = 0
    /\ UNCHANGED <<ConsFrame, drift>>

\* sentence_q.get() goes on once the queue holds an item.
CGet(n) ==
    /\ must_run = 0
    /\ cpc[n] = "get"
    /\ sq[n] # <<>>
    /\ ConsSet(n, ConsRun(n, ConsState(n, "get")))
    /\ UNCHANGED <<ConsFrame, drift, must_run>>

\* The TTS stream yields a chunk of duration d.  Its timestamp is the end of
\* the chunk before it in the stream (mock_tts.py:22-40).
CTtsChunk(n, d) ==
    /\ must_run = 0
    /\ cpc[n] = "tts_pull"
    /\ ChunksPulled < MaxChunks
    /\ LET c == [duration_ms |-> d,
                 timestamp_ms |-> IF nck[n] = 0 THEN 0
                                  ELSE chunk[n].timestamp_ms
                                       + chunk[n].duration_ms]
       IN  ConsSet(n, ConsRun(n, [ConsState(n, "put_audio")
                                    EXCEPT !.chunk = c, !.nck = @ + 1]))
    /\ UNCHANGED <<ConsFrame, drift, must_run>>

\* The TTS stream ends: back to sentence_q.get().
CTtsEnd(n) ==
    /\ must_run = 0
    /\ cpc[n] = "tts_pull"
    /\ ConsSet(n, ConsRun(n, ConsState(n, "get")))
    /\ UNCHANGED <<ConsFrame, drift, must_run>>

\* The avatar stream (avatar/stub.py:31-48) yields frame fi of the chunk;
\* the drift is recorded before the frame is put (orchestrator.py:88-90).
CAvFrame(n) ==
    /\ must_run = 0
    /\ cpc[n] = "av_pull"
    /\ fi[n] < frames(chunk[n].duration_ms)
    /\ drift' = deque_append(drift, fi[n] * frame_duration_ms)
    /\ ConsSet(n, ConsRun(n, ConsState(n, "put_video")))
    /\ UNCHANGED <<ConsFrame, must_run>>

\* The avatar stream ends: the next chunk is pulled from the TTS stream.
CAvEnd(n) ==
    /\ must_run = 0
    /\ cpc[n] = "av_pull"
    /\ fi[n] >= frames(chunk[n].duration_ms)
    /\ cpc' = [cpc EXCEPT ![n] = "tts_pull"]
    /\ UNCHANGED <<envVars, sessVars, connVars, enq, taskVars, pendcb,
                   must_run, prodVars, sq, nck, chunk, fi, base_idx,
                   frame_counter, tts_calls, bookVars>>

\* The TTS stream or the avatar stream raises.
CFail(n) ==
    /\ must_run = 0
    /\ cpc[n] \in {"tts_pull", "av_pull"}
    /\ Cardinality(gen_failed) < MaxFailures
    /\ cpc' = [cpc EXCEPT ![n] = "failed"]
    /\ pendcb' = pendcb \cup {<<n, "C">>}
    /\ gen_failed' = gen_failed \cup {<<n, "C">>}
    /\ UNCHANGED <<envVars, sessVars, connVars, enq, taskVars, must_run,
                   prodVars, sq, nck, chunk, fi, base_idx, frame_counter,
                   tts_calls, cancelled_live, msg_ctl, upd_seen, last_update,
                   llm_request, upd_replaced>>

\* A put of the consumer that found output_q full goes on.
CPut(n) ==
    /\ must_run = 0
    /\ cpc[n] \in {"put_audio", "put_video"}
    /\ ~OutFull(enq)
    /\ ConsSet(n, ConsRun(n, ConsState(n, cpc[n])))
    /\ UNCHANGED <<ConsFrame, drift, must_run>>

\* --------------------------------------------------------------- turn task
\* _run (api/routes.py:112-120) around Orchestrator.run_turn
\* (orchestrator.py:33-112).  Positions: none, start (task created), gather
\* (awaiting asyncio.gather), put_complete / put_error (output_q.put found
\* the queue full), done.

RECURSIVE join(_)
join(tokens) == IF tokens = <<>> THEN <<>> ELSE Head(tokens) \o join(Tail(tokens))

\* First step of _run: a task cancelled before it ran never runs; otherwise
\* run_turn resolves the control, appends the user text to the history and
\* gather creates the two sub-tasks.
TStart(n) ==
    /\ must_run = 0
    /\ tpc[n] = "start"
    /\ IF tcancel[n]
       THEN /\ tpc' = [tpc EXCEPT ![n] = "done"]
            /\ UNCHANGED <<resolved, history, ppc, cpc, outer>>
       ELSE /\ resolved' = [resolved EXCEPT
                               ![n] = <<resolve(tctl[n][1], persona_defaults)>>]
            /\ history' = Append(history, [role |-> "user",
                                           content |-> UserText(n)])
            /\ ppc' = [ppc EXCEPT ![n] = "start"]
            /\ cpc' = [cpc EXCEPT ![n] = "start"]
            /\ outer' = [outer EXCEPT ![n] = "pending"]
            /\ tpc' = [tpc EXCEPT ![n] = "gather"]
    /\ UNCHANGED <<envVars, state, pending_control, current_turn_task, drift,
                   sessions, connVars, enq, nturns, tcancel, tctl, pendcb,
                   must_run, pk, buf, full_response, sq, nck, chunk, fi,
                   base_idx, frame_counter, tts_calls, bookVars>>

\* The done-callback of a finished sub-task (asyncio.gather without
\* return_exceptions): the first exception settles the outer future, the
\* other sub-task is left running; the last result settles it with success.
GatherCb(n, ch) ==
    /\ must_run = 0
    /\ <<n, ch>> \in pendcb
    /\ pendcb' = pendcb \ {<<n, ch>>}
    /\ LET pc == IF ch = "P" THEN ppc[n] ELSE cpc[n]
           allDone == /\ ppc[n] = "done_ok" /\ cpc[n] = "done_ok"
                      /\ \A c \in {"P", "C"} : <<n, c>> \notin pendcb'
       IN  outer' = [outer EXCEPT ![n] =
                IF @ # "pending" THEN @
                ELSE IF pc = "failed" THEN "exc"
                ELSE IF allDone THEN "ok"
                ELSE @]
    /\ UNCHANGED <<envVars, sessVars, connVars, enq, nturns, tpc, tcancel,
                   tctl, resolved, must_run, prodVars, sq, consVars, bookVars>>

\* await output_q.put(ev) as the last statement of the task.
PutOrBlock(n, ev, blocked) ==
    IF OutFull(enq)
    THEN tpc' = [tpc EXCEPT ![n] = blocked] /\ UNCHANGED enq
    ELSE tpc' = [tpc EXCEPT ![n] = "done"] /\ enq' = Append(enq, ev)

\* A wrong run_turn: the assistant entry is appended also when the LLM
\* stream yielded no token.
TWakeAlwaysAppends(n) ==
    /\ must_run = 0
    /\ tpc[n] = "gather"
    /\ outer[n] # "pending"
    /\ IF tcancel[n] \/ outer[n] = "cancelled"
       THEN /\ tpc' = [tpc EXCEPT ![n] = "done"]
            /\ UNCHANGED <<enq, history, state>>
       ELSE IF outer[n] = "exc"
       THEN /\ PutOrBlock(n, ErrorEvent(n), "put_error")
            /\ UNCHANGED <<history, state>>
       ELSE /\ history' = Append(history,
                                 [role |-> "assistant",
                                  content |-> join(full_response[n])])
            /\ state' = "TURN_COMPLETE"
            /\ PutOrBlock(n, TurnCompleteEvent(n), "put_complete")
    /\ UNCHANGED <<envVars, pending_control, current_turn_task, drift,
                   sessions, connVars, nturns, tcancel, outer, tctl, resolved,
                   pendcb, must_run, prodVars, sq, consVars, bookVars>>

\* _run is resumed from the gather: with CancelledError (nothing is put),
\* with the exception of a sub-task (the error event is put), or with the
\* results (history, TURN_COMPLETE, turn_complete).
TWake(n) ==
    /\ must_run = 0
    /\ tpc[n] = "gather"
    /\ outer[n] # "pending"
    /\ IF tcancel[n] \/ outer[n] = "cancelled"
       THEN /\ tpc' = [tpc EXCEPT ![n] = "done"]
            /\ UNCHANGED <<enq, history, state>>
       ELSE IF outer[n] = "exc"
       THEN /\ PutOrBlock(n, ErrorEvent(n), "put_error")
            /\ UNCHANGED <<history, state>>
       ELSE /\ history' = IF full_response[n] # <<>>
                          THEN Append(history,
                                      [role |-> "assistant",
                                       content |-> join(full_response[n])])
                          ELSE history
            /\ state' = "TURN_COMPLETE"
            /\ PutOrBlock(n, TurnCompleteEvent(n), "put_complete")
    /\ UNCHANGED <<envVars, pending_control, current_turn_task, drift,
                   sessions, connVars, nturns, tcancel, outer, tctl, resolved,
                   pendcb, must_run, prodVars, sq, consVars, bookVars>>

\* The last put of _run goes on: cancelled meanwhile it puts nothing.
TPut(n) ==
    /\ must_run = 0
    /\ tpc[n] \in {"put_complete", "put_error"}
    /\ IF tcancel[n]
       THEN tpc' = [tpc EXCEPT ![n] = "done"] /\ UNCHANGED enq
       ELSE /\ ~OutFull(enq)
            /\ PutOrBlock(n, IF tpc[n] = "put_error" THEN ErrorEvent(n)
                             ELSE TurnCompleteEvent(n), tpc[n])
    /\ UNCHANGED <<envVars, sessVars, connVars, nturns, tcancel, outer, tctl,
                   resolved, pendcb, must_run, prodVars, sq, consVars,
                   bookVars>>

\* ------------------------------------------------------------ cancellation

\* Session.cancel_current_turn finds a task that is not done.
LiveTask == current_turn_task # 0 /\ tpc[current_turn_task] # "done"

\* Task.cancel() on _run of turn n (pipeline/session.py:55).  A task awaiting
\* the gather hands the request to the sub-tasks that are not done, and is
\* then resumed by the first done-callback that settles the outer future: the
\* one of a sub-task that had already raised comes before those of the
\* sub-tasks cancelled now.  With the outer future settled, or every sub-task
\* finished, or away from the gather, the task itself takes CancelledError
\* at its next step.  A cancelled sub-task does nothing more.
CancelTask(n) ==
    LET atGather == tpc[n] = "gather" /\ outer[n] = "pending"
        live == {c \in {"P", "C"} :
                    (IF c = "P" THEN ppc[n] ELSE cpc[n]) \notin Finished}
        raised == \E c \in {"P", "C"} :
                    /\ <<n, c>> \in pendcb
                    /\ (IF c = "P" THEN ppc[n] ELSE cpc[n]) = "failed"
    IN  /\ cancelled_live' = cancelled_live \cup {n}
        /\ IF atGather /\ live # {}
           THEN /\ ppc' = [ppc EXCEPT ![n] = IF "P" \in live THEN "cancelled"
                                             ELSE @]
                /\ cpc' = [cpc EXCEPT ![n] = IF "C" \in live THEN "cancelled"
                                             ELSE @]
                /\ outer' = [outer EXCEPT ![n] = IF raised THEN "exc"
                                                 ELSE "cancelled"]
                /\ pendcb' = pendcb \ {<<n, "P">>, <<n, "C">>}
                /\ UNCHANGED tcancel
           ELSE /\ tcancel' = [tcancel EXCEPT ![n] = TRUE]
                /\ UNCHANGED <<ppc, cpc, outer, pendcb>>

NoCancel == UNCHANGED <<cancelled_live, ppc, cpc, outer, pendcb, tcancel>>

\* --------------------------------------------------------------- recv_loop
\* recv_loop and the finally block of session_stream (api/routes.py:88-143).
\* Positions: recv (awaiting a message), cancel_user_text / cancel_interrupt /
\* cancel_close (inside cancel_current_turn, awaiting the cancelled task),
\* closed.

\* A wrong user_text handler: the pending control is not cleared.
StartTurnKeepsPending(c) ==
    LET n == nturns + 1
        effective_control ==
            IF pending_control # NoControl
            THEN merge_controls(pending_control[1], c) ELSE c
    IN  /\ state' = "IDLE"
        /\ pending_control' = pending_control
        /\ tctl' = [tctl EXCEPT ![n] = <<effective_control>>]
        /\ tpc' = [tpc EXCEPT ![n] = "start"]
        /\ nturns' = n
        /\ current_turn_task' = n
        /\ rpc' = "recv"
        /\ revt' = NoControl
        /\ msg_ctl' = [msg_ctl EXCEPT ![n] = <<c>>]
        /\ upd_seen' = [upd_seen EXCEPT ![n] = last_update]
        /\ last_update' = NoControl
        /\ upd_replaced' =
               [now |-> {},
                turn |-> [upd_replaced.turn EXCEPT ![n] = upd_replaced.now]]
        /\ UNCHANGED <<sessions, spc>>

\* user_text once cancel_current_turn has returned (routes.py:99-120,
\* session.py:60-61): the pending control is merged and cleared and the turn
\* task is created.
StartTurn(c) ==
    LET n == nturns + 1
        effective_control ==
            IF pending_control # NoControl
            THEN merge_controls(pending_control[1], c) ELSE c
    IN  /\ state' = "IDLE"
        /\ pending_control' = NoControl
        /\ tctl' = [tctl EXCEPT ![n] = <<effective_control>>]
        /\ tpc' = [tpc EXCEPT ![n] = "start"]
        /\ nturns' = n
        /\ current_turn_task' = n
        /\ rpc' = "recv"
        /\ revt' = NoControl
        /\ msg_ctl' = [msg_ctl EXCEPT ![n] = <<c>>]
        /\ upd_seen' = [upd_seen EXCEPT ![n] = last_update]
        /\ last_update' = NoControl
        /\ upd_replaced' =
               [now |-> {},
                turn |-> [upd_replaced.turn EXCEPT ![n] = upd_replaced.now]]
        /\ UNCHANGED <<sessions, spc>>

\* A wrong cancel_current_turn: the handle and the state are left as they
\* are.
CloseSessionNoReset ==
    /\ state' = state
    /\ current_turn_task' = current_turn_task
    /\ sessions' = sessions \ {SessionId}
    /\ rpc' = "closed"
    /\ revt' = NoControl
    /\ UNCHANGED <<pending_control, tctl, tpc, nturns, msg_ctl, upd_seen,
                   last_update, upd_replaced>>

\* The end of the connection (routes.py:137-143) once the last
\* cancel_current_turn has returned: the session is closed.
CloseSession ==
    /\ state' = "IDLE"
    /\ current_turn_task' = 0
    /\ sessions' = sessions \ {SessionId}
    /\ rpc' = "closed"
    /\ revt' = NoControl
    /\ UNCHANGED <<pending_control, tctl, tpc, nturns, msg_ctl, upd_seen,
                   last_update, upd_replaced>>

\* The handler of a user_text event (routes.py:95-120).
OnUserText(c) ==
    /\ must_run = 0
    /\ rpc = "recv"
    /\ nturns < turn_limit
    /\ IF LiveTask
       THEN /\ CancelTask(current_turn_task)
            /\ rpc' = "cancel_user_text"
            /\ revt' = <<c>>
            /\ UNCHANGED <<state, pending_control, current_turn_task,
                           sessions, spc, tctl, tpc, nturns, msg_ctl,
                           upd_seen, last_update, upd_replaced>>
       ELSE StartTurn(c) /\ NoCancel
    /\ UNCHANGED <<envVars, history, drift, nsent, nwritten, ws, written,
                   enq, resolved, must_run, pk, buf, full_response, sq, nck,
                   chunk, fi, base_idx, frame_counter, tts_calls, gen_failed,
                   llm_request>>

\* A user_text event arrives.
RecvUserText(c) == OnUserText(c) /\ UNCHANGED raw

\* The handler of an interrupt event (routes.py:122-126).  After the turn is
\* cancelled, orch.realtime does not exist on the Orchestrator
\* (orchestrator.py:22-31): the AttributeError ends recv_loop and the
\* finally block of session_stream runs.
OnInterrupt ==
    /\ must_run = 0
    /\ rpc = "recv"
    /\ IF LiveTask
       THEN /\ CancelTask(current_turn_task)
            /\ rpc' = "cancel_interrupt"
            /\ UNCHANGED <<state, pending_control, current_turn_task,
                           sessions, spc, revt, tctl, tpc, nturns, msg_ctl,
                           upd_seen, last_update, upd_replaced>>
       ELSE /\ CloseSession
            /\ spc' = IF spc \in {"get", "send"} THEN "cancelled" ELSE spc
            /\ NoCancel
    /\ UNCHANGED <<envVars, history, drift, nsent, nwritten, ws, written,
                   enq, resolved, must_run, pk, buf, full_response, sq, nck,
                   chunk, fi, base_idx, frame_counter, tts_calls, gen_failed,
                   llm_request>>

\* An interrupt event arrives.
RecvInterrupt == OnInterrupt /\ UNCHANGED raw

\* The transport closes: recv_loop returns and the finally block runs
\* send_task.cancel(), cancel_current_turn() and sm.close().
Disconnect ==
    /\ must_run = 0
    /\ rpc = "recv"
    /\ spc' = IF spc \in {"get", "send"} THEN "cancelled" ELSE spc
    /\ IF LiveTask
       THEN /\ CancelTask(current_turn_task)
            /\ rpc' = "cancel_close"
            /\ UNCHANGED <<state, pending_control, current_turn_task,
                           sessions, revt, tctl, tpc, nturns, msg_ctl,
                           upd_seen, last_update, upd_replaced>>
       ELSE CloseSession /\ NoCancel
    /\ UNCHANGED <<envVars, history, drift, nsent, nwritten, ws, raw,
                   written, enq, resolved, must_run, pk, buf, full_response,
                   sq, nck, chunk, fi, base_idx, frame_counter, tts_calls,
                   gen_failed, llm_request>>

\* The cancelled task has settled: cancel_current_turn returns
\* (session.py:57-61) and the handler goes on.
RecvSettled ==
    /\ must_run = 0
    /\ rpc \in {"cancel_user_text", "cancel_interrupt", "cancel_close"}
    /\ tpc[current_turn_task] = "done"
    /\ CASE rpc = "cancel_user_text" -> StartTurn(revt[1])
         [] rpc = "cancel_interrupt" ->
                /\ CloseSession
                /\ spc' = IF spc \in {"get", "send"} THEN "cancelled" ELSE spc
         [] rpc = "cancel_close" -> CloseSession /\ UNCHANGED spc
    /\ NoCancel
    /\ UNCHANGED <<envVars, history, drift, nsent, nwritten, ws, raw,
                   written, enq, resolved, must_run, pk, buf, full_response,
                   sq, nck, chunk, fi, base_idx, frame_counter, tts_calls,
                   gen_failed, llm_request>>

\* A wrong control_update handler: the control is merged into the one
\* already stored.
OnControlUpdateMerges(c) ==
    /\ must_run = 0
    /\ rpc = "recv"
    /\ pending_control' = IF pending_control # NoControl
                          THEN <<merge_controls(pending_control[1], c)>>
                          ELSE <<c>>
    /\ last_update' = <<c>>
    /\ upd_replaced' =
           [upd_replaced EXCEPT
               !.now = IF pending_control \notin {NoControl, <<c>>}
                       THEN @ \cup {pending_control[1]} ELSE @]
    /\ UNCHANGED <<envVars, state, current_turn_task, history, drift,
                   sessions, rpc, revt, spc, nsent, nwritten, ws, written,
                   enq, taskVars, pendcb, must_run, prodVars, sq, consVars,
                   cancelled_live, gen_failed, msg_ctl, upd_seen,
                   llm_request>>

\* The handler of a control_update event (routes.py:128-130).
OnControlUpdate(c) ==
    /\ must_run = 0
    /\ rpc = "recv"
    /\ pending_control' = <<c>>
    /\ last_update' = <<c>>
    /\ upd_replaced' =
           [upd_replaced EXCEPT
               !.now = IF pending_control \notin {NoControl, <<c>>}
                       THEN @ \cup {pending_control[1]} ELSE @]
    /\ UNCHANGED <<envVars, state, current_turn_task, history, drift,
                   sessions, rpc, revt, spc, nsent, nwritten, ws, written,
                   enq, taskVars, pendcb, must_run, prodVars, sq, consVars,
                   cancelled_live, gen_failed, msg_ctl, upd_seen,
                   llm_request>>

\* A control_update event arrives.
RecvControlUpdate(c) == OnControlUpdate(c) /\ UNCHANGED raw

\* A message _parse_inbound rejects (routes.py:91-93, 172-184) is skipped.
RecvInvalid ==
    /\ must_run = 0
    /\ rpc = "recv"
    /\ UNCHANGED vars

\* The text frames of the client.  json says what json.loads makes of the
\* frame: "garbage" (it raises), "array" (a value that is no object) or
\* "object"; type is data.get("type"), "" for none; text says whether the
\* object has a string under "text"; control is <<>> for no "control" key.
Message(json, type, text, control) ==
    [json |-> json, type |-> type, text |-> text, control |-> control]

\* The Field(ge=, le=) bounds of EmotionControl and CharacterControl and the
\* EmotionLabel enumeration (core/types.py:12-34), floats scaled by 100.
EmotionLabels ==
    {"neutral", "happy", "sad", "angry", "surprised", "fearful", "disgusted"}

Validates(c) ==
    /\ c.emotion.label \in EmotionLabels
    /\ c.emotion.intensity >= 0 /\ c.emotion.intensity <= 100
    /\ c.emotion.valence >= -100 /\ c.emotion.valence <= 100
    /\ c.emotion.arousal >= -100 /\ c.emotion.arousal <= 100
    /\ c.character.speech_rate >= 25 /\ c.character.speech_rate <= 400
    /\ c.character.pitch_shift >= -100 /\ c.character.pitch_shift <= 100
    /\ c.character.expressivity >= 0 /\ c.character.expressivity <= 100
    /\ c.character.motion_gain >= 0 /\ c.character.motion_gain <= 200

\* The inbound events of core/types.py:154-166.
UserTextEvent(c) == [type |-> "user_text", control |-> c]
InterruptEvent == [type |-> "interrupt", control |-> TurnControl]
ControlUpdateEvent(c) == [type |-> "control_update", control |-> c]

\* A wrong _parse_inbound: the controls are not validated.
parse_unvalidated(m) ==
    IF m.json # "object" THEN <<>>
    ELSE IF m.type = "user_text"
    THEN IF m.text
         THEN <<UserTextEvent(IF m.control = <<>> THEN TurnControl
                              ELSE m.control[1])>>
         ELSE <<>>
    ELSE IF m.type = "interrupt" THEN <<InterruptEvent>>
    ELSE IF m.type = "control_update"
    THEN IF m.control # <<>> THEN <<ControlUpdateEvent(m.control[1])>>
         ELSE <<>>
    ELSE <<>>

\* _parse_inbound (routes.py:172-184): the event, or None (<<>>) when
\* json.loads, data.get or the constructor of the event raises, or the type
\* is not one of the three.
parse_inbound(m) ==
    IF m.json # "object" THEN <<>>
    ELSE IF m.type = "user_text"
    THEN IF m.text /\ (m.control = <<>> \/ Validates(m.control[1]))
         THEN <<UserTextEvent(IF m.control = <<>> THEN TurnControl
                              ELSE m.control[1])>>
         ELSE <<>>
    ELSE IF m.type = "interrupt" THEN <<InterruptEvent>>
    ELSE IF m.type = "control_update"
    THEN IF m.control # <<>> /\ Validates(m.control[1])
         THEN <<ControlUpdateEvent(m.control[1])>>
         ELSE <<>>
    ELSE <<>>

\* Whether an even or an odd number of frames has been read.
Parity == IF raw = <<>> THEN 0 ELSE raw[2]

\* One iteration of recv_loop on the frame m (routes.py:90-130).
RecvMessage(m) ==
    /\ raw' = <<m, 1 - Parity>>
    /\ LET evt == parse_inbound(m)
       IN  IF evt = <<>>
           THEN /\ must_run = 0
                /\ rpc = "recv"
                /\ UNCHANGED <<envVars, sessVars, rpc, revt, spc, nsent,
                               nwritten, ws, written, enq, taskVars, pendcb,
                               must_run, prodVars, sq, consVars, bookVars>>
           ELSE CASE evt[1].type = "user_text" ->
                        nturns < turn_limit /\ OnUserText(evt[1].control)
                  [] evt[1].type = "interrupt" -> OnInterrupt
                  [] evt[1].type = "control_update" ->
                        OnControlUpdate(evt[1].control)

\* A wrong send_loop: it takes the events of a cancelled turn off the queue
\* without writing them.
SendLoopSkipsCancelled ==
    /\ must_run = 0
    /\ spc = "get"
    /\ nsent < Len(enq)
    /\ nsent' = nsent + 1
    /\ IF enq[nsent + 1].turn \in cancelled_live
       THEN UNCHANGED <<nwritten, written>>
       ELSE /\ nwritten' = nwritten + 1
            /\ written' = Append(written, enq[nsent + 1])
    /\ UNCHANGED <<envVars, sessVars, rpc, revt, spc, ws, raw, enq, taskVars,
                   pendcb, must_run, prodVars, sq, consVars, bookVars>>

\* --------------------------------------------------------------- send_loop
\* send_loop (api/routes.py:77-85).  Positions: get (output_q.get), send
\* (ws.send_text with the event taken last), returned (after a transport
\* failure), cancelled.  SendLoop is one iteration on a transport that takes
\* the event at once; SendGet, SendWrite and SendFail are the iteration in
\* its steps on a transport that may wait and may fail.

SendLoop ==
    /\ must_run = 0
    /\ spc = "get"
    /\ nsent < Len(enq)
    /\ nsent' = nsent + 1
    /\ nwritten' = nwritten + 1
    /\ written' = Append(written, enq[nsent + 1])
    /\ UNCHANGED <<envVars, sessVars, rpc, revt, spc, ws, raw, enq, taskVars,
                   pendcb, must_run, prodVars, sq, consVars, bookVars>>

SendFrame ==
    <<envVars, sessVars, rpc, revt, ws, raw, enq, taskVars, pendcb, must_run,
      prodVars, sq, consVars, bookVars>>

\* event = await output_q.get()
SendGet ==
    /\ must_run = 0
    /\ spc = "get"
    /\ nsent < Len(enq)
    /\ nsent' = nsent + 1
    /\ spc' = "send"
    /\ UNCHANGED <<nwritten, written, SendFrame>>

\* await ws.send_text(event.model_dump_json()) returns
SendWrite ==
    /\ must_run = 0
    /\ spc = "send"
    /\ nwritten' = nwritten + 1
    /\ written' = Append(written, enq[nsent])
    /\ spc' = "get"
    /\ UNCHANGED <<nsent, SendFrame>>

\* A wrong send_loop: after a failure it goes on with the next event.
SendFailGoesOn ==
    /\ must_run = 0
    /\ spc = "send"
    /\ spc' = "get"
    /\ UNCHANGED <<nsent, nwritten, written, SendFrame>>

\* ws.send_text raises (WebSocketDisconnect or any other exception):
\* send_loop returns.
SendFail ==
    /\ must_run = 0
    /\ spc = "send"
    /\ spc' = "returned"
    /\ UNCHANGED <<nsent, nwritten, written, SendFrame>>

\* ------------------------------------------------------------ specification

\* A control_update as in the multi-turn script: a happy emotion and a
\* character whose only non-default field is speech_rate = 1.2.
HappyFast ==
    [emotion |-> [EmotionControl EXCEPT !.label = "happy"],
     character |-> [CharacterControl EXCEPT !.speech_rate = 120]]

\* A user_text control with an emotion and a persona of its own.
SadPro ==
    [emotion |-> [EmotionControl EXCEPT !.label = "sad"],
     character |-> [CharacterControl EXCEPT !.persona_id = "professional",
                                            !.speech_rate = 95]]

\* OpenAIRealtimeAdapter.__init__ (openai_realtime.py:41-47): no transport,
\* no listener task, an empty event queue; nothing sent upstream, no turn.
NewAdapter ==
    /\ is_connected = FALSE
    /\ rt_ws = "None"
    /\ listener_task = "None"
    /\ event_queue = <<>>
    /\ rt_caller = "idle"
    /\ upstream = [open |-> FALSE, resp |-> 0, wire |-> <<>>]
    /\ rt_turn = [pos |-> "none", resp |-> 0]
    /\ rt_book = [connects |-> 0, skipped |-> 0, transports |-> 0,
                  listeners |-> 0, responses |-> 0, deltas |-> 0,
                  errors |-> 0, cancelled |-> {}, broken |-> {},
                  yielded |-> <<>>]

\* No second connection to the session.
NoSecond == [ws |-> <<"none">>, rpc |-> "none", awaiting |-> 0]

\* No call of the mapper on its own.
NoCall ==
    arg_a = TurnControl /\ arg_b = TurnControl /\ ret = <<>> /\ oplog = <<>>

\* A session just created, with no turn yet and nothing sent or received.
NewSession ==
    /\ state = "IDLE"
    /\ pending_control = NoControl
    /\ current_turn_task = 0
    /\ history = <<>>
    /\ drift = <<>>
    /\ revt = NoControl
    /\ nsent = 0 /\ nwritten = 0 /\ enq = <<>>
    /\ raw = <<>> /\ written = <<>>
    /\ nturns = 0
    /\ tpc = [n \in Turns |-> "none"]
    /\ tcancel = [n \in Turns |-> FALSE]
    /\ outer = [n \in Turns |-> "pending"]
    /\ pendcb = {}
    /\ tctl = [n \in Turns |-> NoControl]
    /\ resolved = [n \in Turns |-> NoControl]
    /\ must_run = 0
    /\ ppc = [n \in Turns |-> "none"]
    /\ pk = [n \in Turns |-> 0]
    /\ buf = [n \in Turns |-> <<>>]
    /\ full_response = [n \in Turns |-> <<>>]
    /\ sq = [n \in Turns |-> <<>>]
    /\ cpc = [n \in Turns |-> "none"]
    /\ nck = [n \in Turns |-> 0]
    /\ chunk = [n \in Turns |-> NoChunk]
    /\ fi = [n \in Turns |-> 0]
    /\ base_idx = [n \in Turns |-> 0]
    /\ frame_counter = [n \in Turns |-> 0]
    /\ tts_calls = [n \in Turns |-> <<>>]
    /\ cancelled_live = {}
    /\ gen_failed = {}
    /\ msg_ctl = [n \in Turns |-> NoControl]
    /\ upd_seen = [n \in Turns |-> NoControl]
    /\ last_update = NoControl
    /\ upd_replaced = [now |-> {}, turn |-> [n \in Turns |-> {}]]
    /\ llm_request = [n \in Turns |-> <<>>]

\* The connection to the session just accepted: output_q is empty, send_loop
\* and recv_loop are created (routes.py:73-74, 135-136).
InitConnection ==
    /\ NewSession
    /\ ws = <<"accepted">>
    /\ rpc = "recv"
    /\ spc = "get"

InitSession == sessions = {SessionId} /\ InitConnection

\* The steps of the tasks of turn n while no generator raises.
TurnStep(n) ==
    \/ TStart(n)
    \/ PStart(n)
    \/ CStart(n)
    \/ PToken(n)
    \/ PEnd(n)
    \/ PResume(n)
    \/ CGet(n)
    \/ \E d \in tts_durs : CTtsChunk(n, d)
    \/ CTtsEnd(n)
    \/ CAvFrame(n)
    \/ CAvEnd(n)
    \/ CPut(n)
    \/ \E ch \in {"P", "C"} : GatherCb(n, ch)
    \/ TWake(n)
    \/ TPut(n)

\* The connection with a client that sends user_text and interrupt events
\* and closes the transport, and generators that may raise.
Init ==
    /\ persona_defaults = get_persona_defaults("default")
    /\ llm_script = <<TokHello, TokDr, TokSmith>>
    /\ tts_durs = {40}
    /\ user_controls = {TurnControl}
    /\ update_controls = {}
    /\ turn_limit = MaxTurns
    /\ token_limit = MaxTokens
    /\ NewAdapter
    /\ conn2 = NoSecond
    /\ NoCall
    /\ InitSession

Next ==
    \/ \E c \in user_controls : RecvUserText(c)
    \/ RecvInterrupt
    \/ RecvInvalid
    \/ Disconnect
    \/ RecvSettled
    \/ SendLoop
    \/ \E n \in Turns :
        \/ TurnStep(n)
        \/ PFail(n)
        \/ CFail(n)

Spec == Init /\ [][Next]_vars

\* The connection with a client that sends user_text and control_update
\* events, with and without a control, to a session of either persona.
InitControl ==
    /\ persona_defaults \in {get_persona_defaults("default"),
                              get_persona_defaults("professional")}
    /\ llm_script = <<TokHello>>
    /\ tts_durs = {40}
    /\ user_controls = {TurnControl, SadPro}
    /\ update_controls = {HappyFast}
    /\ turn_limit = MaxTurns
    /\ token_limit = MaxTokens
    /\ NewAdapter
    /\ conn2 = NoSecond
    /\ NoCall
    /\ InitSession

NextControl ==
    \/ \E c \in user_controls : RecvUserText(c)
    \/ \E c \in update_controls : RecvControlUpdate(c)
    \/ RecvSettled
    \/ SendLoop
    \/ \E n \in Turns : TurnStep(n)

SpecControl == InitControl /\ [][NextControl]_vars

\* One client that sends user_text events only, also while a turn is in
\* flight, and a TTS whose chunks last 20, 80 or 1000 ms.
InitFrames ==
    /\ persona_defaults = get_persona_defaults("default")
    /\ llm_script = <<TokHello>>
    /\ tts_durs = {20, 80, 1000}
    /\ user_controls = {TurnControl}
    /\ update_controls = {}
    /\ turn_limit = MaxTurns
    /\ token_limit = MaxTokens
    /\ NewAdapter
    /\ conn2 = NoSecond
    /\ NoCall
    /\ InitSession

NextFrames ==
    \/ \E c \in user_controls : RecvUserText(c)
    \/ RecvSettled
    \/ SendLoop
    \/ \E n \in Turns : TurnStep(n)

SpecFrames == InitFrames /\ [][NextFrames]_vars

\* Token streams for the sentence buffer: the abbreviation at the start of
\* a sentence, a trimmed buffer of 9 and of 10 characters at a sentence end,
\* and tokens of white space only.
ScriptDr ==
    <<<<"D", "r", ".">>, <<" ", "S", "m", "i", "t", "h">>,
      <<" ", "a", "r", "r", "i", "v", "e", "d", ".">>,
      <<" ", "D", "o", "n", "e", ".">>>>

ScriptEdge ==
    <<<<" ", "1", "2", "3", "4", "5", "6", "7", "8", "9", "!">>,
      <<" ", "1", "2", "3", "4", "5", "6", "7", "8", "?">>,
      <<"\n">>>>

ScriptBlank == <<<<" ">>, <<" ", "\n">>, <<"a", "\n">>, <<"\n">>>>

Scripts ==
    {ScriptDr, ScriptEdge, ScriptBlank, <<TokHello, TokDr, TokSmith>>}

\* One user_text whose LLM stream is one of the scripts, run to its end.
InitSentence ==
    /\ persona_defaults = get_persona_defaults("default")
    /\ llm_script \in Scripts
    /\ tts_durs = {40}
    /\ user_controls = {TurnControl}
    /\ update_controls = {}
    /\ turn_limit = 1
    /\ token_limit = Len(llm_script)
    /\ NewAdapter
    /\ conn2 = NoSecond
    /\ NoCall
    /\ InitSession

NextSentence ==
    \/ \E c \in user_controls : RecvUserText(c)
    \/ SendLoop
    \/ \E n \in Turns : TurnStep(n)

SpecSentence == InitSentence /\ [][NextSentence]_vars

\* A client that sends user_text events only, also while a turn is in
\* flight, an LLM stream of up to two sentences, and the fairness of the
\* event loop: a callback that is ready runs, a stream that is pulled
\* answers, the send task goes on taking events.
InitLive ==
    /\ persona_defaults = get_persona_defaults("default")
    /\ llm_script = <<TokHello, TokHello>>
    /\ tts_durs = {40}
    /\ user_controls = {TurnControl}
    /\ update_controls = {}
    /\ turn_limit = MaxTurns
    /\ token_limit = MaxTokens
    /\ NewAdapter
    /\ conn2 = NoSecond
    /\ NoCall
    /\ InitSession

NextLive ==
    \/ \E c \in user_controls : RecvUserText(c)
    \/ RecvSettled
    \/ SendLoop
    \/ \E n \in Turns : TurnStep(n)

Fairness ==
    /\ WF_vars(SendLoop)
    /\ WF_vars(RecvSettled)
    /\ \A n \in Turns : WF_vars(TurnStep(n))

SpecLive == InitLive /\ [][NextLive]_vars /\ Fairness

\* ---------------------------------------------------------------- registry
\* SessionManager (pipeline/session.py:71-107) on its own.  A Session is
\* identified by its id: every id is given to one Session object.

Ids == {"s1", "s2", "s3"}

\* The ids create has returned so far.
Issued == {oplog[i][2] : i \in {j \in 1..Len(oplog) : oplog[j][1] = "create"}}

\* SessionManager.get: the session, or None
sm_get(reg, id) == IF id \in reg THEN <<id>> ELSE <<>>

\* SessionManager.get_or_404: the session, or KeyError
sm_get_or_404(reg, id) ==
    IF sm_get(reg, id) = <<>> THEN <<"KeyError">> ELSE <<"ok", id>>

\* A wrong close: the registry is emptied.
sm_close_all(reg, id) == {}

\* SessionManager.close: self._sessions.pop(session_id, None)
sm_close(reg, id) == reg \ {id}

RegFrame ==
    <<persona_defaults, llm_script, tts_durs, user_controls, update_controls,
      turn_limit, token_limit, rtVars, conn2, arg_a, arg_b, state, pending_control,
      current_turn_task, history, drift, connVars, enq, taskVars, pendcb,
      must_run, prodVars, sq, consVars, bookVars>>

\* One operation op on id with the value r returned.
RegOp(op, id, r) ==
    /\ Len(oplog) < MaxOps
    /\ oplog' = Append(oplog, <<op, id>>)
    /\ ret' = <<op, id, r>>
    /\ UNCHANGED RegFrame

\* create: uuid.uuid4() (session.py:83) is an id never issued before.
RegCreate(id) ==
    /\ id \notin Issued
    /\ sessions' = sessions \cup {id}
    /\ RegOp("create", id, <<id>>)

RegGet(id) ==
    /\ UNCHANGED sessions
    /\ RegOp("get", id, sm_get(sessions, id))

RegGetOr404(id) ==
    /\ UNCHANGED sessions
    /\ RegOp("get_or_404", id, sm_get_or_404(sessions, id))

RegClose(id) ==
    /\ sessions' = sm_close(sessions, id)
    /\ RegOp("close", id, <<>>)

InitRegistry ==
    /\ persona_defaults = get_persona_defaults("default")
    /\ llm_script = <<>>
    /\ tts_durs = {}
    /\ user_controls = {}
    /\ update_controls = {}
    /\ turn_limit = 0
    /\ token_limit = 0
    /\ NewAdapter
    /\ conn2 = NoSecond
    /\ NoCall
    /\ sessions = {}
    /\ InitConnection

NextRegistry ==
    \E id \in Ids :
        \/ RegCreate(id)
        \/ RegGet(id)
        \/ RegGetOr404(id)
        \/ RegClose(id)

SpecRegistry == InitRegistry /\ [][NextRegistry]_vars

\* A client that sends user_text events, also while a turn is in flight, and
\* closes the transport, on a transport whose writes may wait and may fail.
InitSend ==
    /\ persona_defaults = get_persona_defaults("default")
    /\ llm_script = <<TokHello, TokHello>>
    /\ tts_durs = {40}
    /\ user_controls = {TurnControl}
    /\ update_controls = {}
    /\ turn_limit = MaxTurns
    /\ token_limit = MaxTokens
    /\ NewAdapter
    /\ conn2 = NoSecond
    /\ NoCall
    /\ InitSession

NextSend ==
    \/ \E c \in user_controls : RecvUserText(c)
    \/ Disconnect
    \/ RecvSettled
    \/ SendGet
    \/ SendWrite
    \/ SendFail
    \/ \E n \in Turns : TurnStep(n)

SpecSend == InitSend /\ [][NextSend]_vars

\* ------------------------------------------------------------ the handshake
\* session_stream up to the creation of its two tasks (routes.py:62-74,
\* 135-136).  ws is <<"new">> while the handshake is pending, <<"accepted">>,
\* or <<"closed", code, reason>>.  The connection of the model is the one
\* asked for SessionId.

\* A wrong session_stream: the connection is accepted without the lookup.
ConnectNoLookup ==
    /\ ws = <<"new">>
    /\ ws' = <<"accepted">>
    /\ rpc' = "recv"
    /\ spc' = "get"
    /\ UNCHANGED <<envVars, sessVars, revt, nsent, nwritten, raw, written,
                   enq, taskVars, pendcb, must_run, prodVars, sq, consVars,
                   bookVars>>

\* A client connects to /v1/sessions/SessionId/stream.
Connect ==
    /\ ws = <<"new">>
    /\ IF sm_get_or_404(sessions, SessionId) = <<"KeyError">>
       THEN /\ ws' = <<"closed", 4004, "Session not found">>
            /\ UNCHANGED <<rpc, spc>>
       ELSE /\ ws' = <<"accepted">>
            /\ rpc' = "recv"
            /\ spc' = "get"
    /\ UNCHANGED <<envVars, sessVars, revt, nsent, nwritten, raw, written,
                   enq, taskVars, pendcb, must_run, prodVars, sq, consVars,
                   bookVars>>

\* The registry with sessions created and closed by other requests, one
\* connection attempt, and the end of the connection it may open.
InitConnect ==
    /\ persona_defaults = get_persona_defaults("default")
    /\ llm_script = <<>>
    /\ tts_durs = {}
    /\ user_controls = {}
    /\ update_controls = {}
    /\ turn_limit = 0
    /\ token_limit = 0
    /\ NewAdapter
    /\ conn2 = NoSecond
    /\ NoCall
    /\ sessions = {}
    /\ NewSession
    /\ ws = <<"new">>
    /\ rpc = "none"
    /\ spc = "none"

NextConnect ==
    \/ \E id \in Ids : RegCreate(id) \/ RegClose(id)
    \/ Connect
    \/ Disconnect

SpecConnect == InitConnect /\ [][NextConnect]_vars

\* ------------------------------------------------------- the inbound frames
\* Controls out of the range of their fields.
TooIntense ==
    [emotion |-> [EmotionControl EXCEPT !.intensity = 150],
     character |-> CharacterControl]

TooFast ==
    [emotion |-> EmotionControl,
     character |-> [CharacterControl EXCEPT !.speech_rate = 500]]

\* Frames of every kind: no JSON, JSON that is no object, an object with an
\* unknown type or none, events with a missing field or a control out of
\* range, and the three events well formed.
Frames ==
    {Message("garbage", "", FALSE, <<>>),
     Message("array", "", FALSE, <<>>),
     Message("object", "ping", TRUE, <<>>),
     Message("object", "", TRUE, <<TurnControl>>),
     Message("object", "user_text", FALSE, <<>>),
     Message("object", "user_text", TRUE, <<TooIntense>>),
     Message("object", "control_update", FALSE, <<>>),
     Message("object", "control_update", FALSE, <<TooFast>>),
     Message("object", "user_text", TRUE, <<>>),
     Message("object", "control_update", FALSE, <<HappyFast>>),
     Message("object", "interrupt", FALSE, <<>>)}

\* One connection on which the client sends frames of every kind, also
\* while the turn is in flight.
InitInbound ==
    /\ persona_defaults = get_persona_defaults("default")
    /\ llm_script = <<TokHello, TokHello>>
    /\ tts_durs = {40}
    /\ user_controls = {TurnControl}
    /\ update_controls = {HappyFast}
    /\ turn_limit = 1
    /\ token_limit = 2
    /\ NewAdapter
    /\ conn2 = NoSecond
    /\ NoCall
    /\ InitSession

NextInbound ==
    \/ \E m \in Frames : RecvMessage(m)
    \/ RecvSettled
    \/ SendLoop
    \/ \E n \in Turns : TurnStep(n)

SpecInbound == InitInbound /\ [][NextInbound]_vars

\* ------------------------------------------------------- the drift tracker
\* DriftController (alignment/drift.py) on its own, as Session.__init__
\* creates it (window 10).

DriftFrame ==
    <<persona_defaults, llm_script, tts_durs, user_controls, update_controls,
      turn_limit, token_limit, rtVars, conn2, arg_a, arg_b, state, pending_control,
      current_turn_task, history, sessions, connVars, enq, taskVars, pendcb,
      must_run, prodVars, sq, consVars, bookVars>>

\* The timestamp pairs of the updates: video 10 ms ahead of the audio,
\* 10 ms behind, and 50 ms ahead.
DriftInputs == {<<0, 10>>, <<100, 90>>, <<0, 50>>}

\* update(audio_ts_ms, video_ts_ms) (drift.py:22-26)
DriftUpdate(audio_ts_ms, video_ts_ms) ==
    /\ Len(oplog) < MaxSamples
    /\ LET d == video_ts_ms - audio_ts_ms
       IN  /\ drift' = deque_append(drift, d)
           /\ oplog' = Append(oplog, d)
           /\ ret' = <<"update", d>>
    /\ UNCHANGED DriftFrame

\* reset() (drift.py:40-41)
DriftReset ==
    /\ drift' = <<>>
    /\ oplog' = <<>>
    /\ ret' = <<"reset">>
    /\ UNCHANGED DriftFrame

InitDrift ==
    /\ persona_defaults = get_persona_defaults("default")
    /\ llm_script = <<>>
    /\ tts_durs = {}
    /\ user_controls = {}
    /\ update_controls = {}
    /\ turn_limit = 0
    /\ token_limit = 0
    /\ NewAdapter
    /\ conn2 = NoSecond
    /\ NoCall
    /\ InitSession

NextDrift ==
    \/ \E p \in DriftInputs : DriftUpdate(p[1], p[2])
    \/ DriftReset

SpecDrift == InitDrift /\ [][NextDrift]_vars

\* resolve and merge_controls on their own, on every pair of the controls
\* below and, for resolve, every persona.
Emotions ==
    {EmotionControl,
     [EmotionControl EXCEPT !.label = "happy"],
     [EmotionControl EXCEPT !.intensity = 80]}

Characters ==
    {CharacterControl,
     [CharacterControl EXCEPT !.speech_rate = 120],
     [CharacterControl EXCEPT !.persona_id = "casual"],
     [CharacterControl EXCEPT !.persona_id = "professional",
                              !.speech_rate = 95, !.expressivity = 40,
                              !.motion_gain = 70]}

Controls == [emotion : Emotions, character : Characters]

Personas == {PRESETS[p] : p \in DOMAIN PRESETS}

CallResolve ==
    /\ ret = <<>>
    /\ arg_b \in Personas
    /\ ret' = <<"resolve", resolve(arg_a, arg_b)>>
    /\ UNCHANGED <<persona_defaults, llm_script, tts_durs, user_controls,
                   update_controls, turn_limit, token_limit, rtVars, conn2, arg_a, arg_b, oplog,
                   sessVars, connVars, enq, taskVars, pendcb, must_run,
                   prodVars, sq, consVars, bookVars>>

CallMerge ==
    /\ ret = <<>>
    /\ ret' = <<"merge_controls", merge_controls(arg_a, arg_b)>>
    /\ UNCHANGED <<persona_defaults, llm_script, tts_durs, user_controls,
                   update_controls, turn_limit, token_limit, rtVars, conn2, arg_a, arg_b, oplog,
                   sessVars, connVars, enq, taskVars, pendcb, must_run,
                   prodVars, sq, consVars, bookVars>>

InitMapper ==
    /\ persona_defaults = get_persona_defaults("default")
    /\ llm_script = <<>>
    /\ tts_durs = {}
    /\ user_controls = {}
    /\ update_controls = {}
    /\ turn_limit = 0
    /\ token_limit = 0
    /\ NewAdapter
    /\ conn2 = NoSecond
    /\ arg_a \in Controls
    /\ arg_b \in Controls \cup Personas
    /\ ret = <<>>
    /\ oplog = <<>>
    /\ InitSession

NextMapper == CallResolve \/ CallMerge

SpecMapper == InitMapper /\ [][NextMapper]_vars

\* ------------------------------------------------- the combined generator
\* OpenAIRealtimeAdapter (adapters/realtime/openai_realtime.py) with its
\* upstream and its callers.  The events carry the id of the response they
\* belong to; of the adapter's events only turn_complete has it as a field
\* (turn_id), on the deltas it is bookkeeping.

RtFrame ==
    <<persona_defaults, llm_script, tts_durs, user_controls, update_controls,
      turn_limit, token_limit, callVars, conn2, sessVars, connVars, enq,
      taskVars, pendcb, must_run, prodVars, sq, consVars, bookVars>>

ServerEvent(type, response) == [type |-> type, response |-> response]

\* A wrong connect: it opens the transport whether connected or not.
connect_unguarded ==
    /\ rt_caller = "idle"
    /\ rt_book.connects < MaxConnects
    /\ rt_caller' = "connecting"
    /\ rt_book' = [rt_book EXCEPT !.connects = @ + 1]
    /\ UNCHANGED <<is_connected, rt_ws, listener_task, event_queue, upstream,
                   rt_turn>>
    /\ UNCHANGED RtFrame

\* connect is called (openai_realtime.py:49-55): it returns at once when the
\* adapter is connected, and goes on to open a transport otherwise.
connect ==
    /\ rt_caller = "idle"
    /\ rt_book.connects < MaxConnects
    /\ IF is_connected
       THEN /\ rt_book' = [rt_book EXCEPT !.connects = @ + 1,
                                          !.skipped = @ + 1]
            /\ UNCHANGED rt_caller
       ELSE /\ rt_book' = [rt_book EXCEPT !.connects = @ + 1]
            /\ rt_caller' = "connecting"
    /\ UNCHANGED <<is_connected, rt_ws, listener_task, event_queue, upstream,
                   rt_turn>>
    /\ UNCHANGED RtFrame

\* connect goes on (openai_realtime.py:58-90): the transport is open, the
\* session is configured and created, the listener task is started.
connect_created ==
    /\ rt_caller = "connecting"
    /\ rt_ws' = "open"
    /\ upstream' = [open |-> TRUE, resp |-> 0, wire |-> <<>>]
    /\ listener_task' = "running"
    /\ is_connected' = TRUE
    /\ rt_caller' = "idle"
    /\ rt_book' = [rt_book EXCEPT !.transports = @ + 1, !.listeners = @ + 1]
    /\ UNCHANGED <<event_queue, rt_turn>>
    /\ UNCHANGED RtFrame

\* connect fails (openai_realtime.py:92-97): the transport, if any, is
\* closed and dropped, and the exception goes to the caller.
connect_failed ==
    /\ rt_caller = "connecting"
    /\ rt_ws' = "None"
    /\ upstream' = [open |-> FALSE, resp |-> 0, wire |-> <<>>]
    /\ rt_caller' = "idle"
    /\ UNCHANGED <<is_connected, listener_task, event_queue, rt_turn, rt_book>>
    /\ UNCHANGED RtFrame

\* _handle_server_event (openai_realtime.py:117-157) on the event queue q:
\* the two deltas and response.done are queued as audio_chunk, text_delta
\* and turn_complete; an error and any other event are logged only.
handle_server_event(q, event) ==
    IF event.type = "response.output_audio.delta"
    THEN Append(q, ServerEvent("audio_chunk", event.response))
    ELSE IF event.type = "response.output_audio_transcript.delta"
    THEN Append(q, ServerEvent("text_delta", event.response))
    ELSE IF event.type = "response.done"
    THEN Append(q, ServerEvent("turn_complete", event.response))
    ELSE q

\* _listen (openai_realtime.py:99-115) reads the next message of the
\* transport; a closed connection ends the task with _is_connected False.
listen ==
    /\ listener_task = "running"
    /\ upstream.wire # <<>>
    /\ upstream' = [upstream EXCEPT !.wire = Tail(@)]
    /\ IF Head(upstream.wire).type = "close"
       THEN /\ listener_task' = "done"
            /\ is_connected' = FALSE
            /\ UNCHANGED event_queue
       ELSE /\ event_queue' =
                  handle_server_event(event_queue, Head(upstream.wire))
            /\ UNCHANGED <<listener_task, is_connected>>
    /\ UNCHANGED <<rt_ws, rt_caller, rt_turn, rt_book>>
    /\ UNCHANGED RtFrame

\* close (openai_realtime.py:199-214)
close ==
    /\ rt_caller = "idle"
    /\ listener_task' = "None"
    /\ rt_ws' = "None"
    /\ is_connected' = FALSE
    /\ upstream' = IF rt_ws = "None" THEN upstream
                   ELSE [open |-> FALSE, resp |-> 0, wire |-> <<>>]
    /\ UNCHANGED <<event_queue, rt_caller, rt_turn, rt_book>>
    /\ UNCHANGED RtFrame

\* The upstream sends a delta of the response it is generating.
UpstreamDelta(type) ==
    /\ upstream.open
    /\ upstream.resp # 0
    /\ rt_book.deltas < MaxDeltas
    /\ upstream' = [upstream EXCEPT
                       !.wire = Append(@, ServerEvent(type, upstream.resp))]
    /\ rt_book' = [rt_book EXCEPT !.deltas = @ + 1]
    /\ UNCHANGED <<is_connected, rt_ws, listener_task, event_queue, rt_caller,
                   rt_turn>>
    /\ UNCHANGED RtFrame

\* The upstream ends the response with response.done.
UpstreamDone ==
    /\ upstream.open
    /\ upstream.resp # 0
    /\ upstream' = [upstream EXCEPT
                       !.wire = Append(@, ServerEvent("response.done",
                                                      upstream.resp)),
                       !.resp = 0]
    /\ UNCHANGED <<is_connected, rt_ws, listener_task, event_queue, rt_caller,
                   rt_turn, rt_book>>
    /\ UNCHANGED RtFrame

\* The upstream ends the response with an error event.
UpstreamError ==
    /\ upstream.open
    /\ upstream.resp # 0
    /\ rt_book.errors < MaxFailures
    /\ upstream' = [upstream EXCEPT
                       !.wire = Append(@, ServerEvent("error", upstream.resp)),
                       !.resp = 0]
    /\ rt_book' = [rt_book EXCEPT !.errors = @ + 1,
                                  !.broken = @ \cup {upstream.resp}]
    /\ UNCHANGED <<is_connected, rt_ws, listener_task, event_queue, rt_caller,
                   rt_turn>>
    /\ UNCHANGED RtFrame

\* The upstream closes the connection.
UpstreamClose ==
    /\ upstream.open
    /\ upstream' = [open |-> FALSE, resp |-> 0,
                    wire |-> Append(upstream.wire, ServerEvent("close", 0))]
    /\ rt_book' = [rt_book EXCEPT
                      !.broken = IF upstream.resp = 0 THEN @
                                 ELSE @ \cup {upstream.resp}]
    /\ UNCHANGED <<is_connected, rt_ws, listener_task, event_queue, rt_caller,
                   rt_turn>>
    /\ UNCHANGED RtFrame

\* A turn in combined mode starts: send_user_text (openai_realtime.py:159-177)
\* raises when the adapter is not connected or the transport is closed, and
\* else asks the upstream for a response; the turn goes on to stream_events.
RtUserText ==
    /\ rt_turn.pos # "stream"
    /\ rt_book.responses < MaxResponses
    /\ IF is_connected /\ rt_ws # "None" /\ upstream.open
       THEN /\ upstream' = [upstream EXCEPT !.resp = rt_book.responses + 1]
            /\ rt_turn' = [pos |-> "stream", resp |-> rt_book.responses + 1]
            /\ rt_book' = [rt_book EXCEPT !.responses = @ + 1]
       ELSE /\ rt_turn' = [pos |-> "failed", resp |-> 0]
            /\ UNCHANGED <<upstream, rt_book>>
    /\ UNCHANGED <<is_connected, rt_ws, listener_task, event_queue, rt_caller>>
    /\ UNCHANGED RtFrame

\* stream_events (openai_realtime.py:191-197) yields the next event of the
\* queue to the turn, and ends behind a turn_complete.
stream_events ==
    /\ rt_turn.pos = "stream"
    /\ event_queue # <<>>
    /\ event_queue' = Tail(event_queue)
    /\ rt_book' = [rt_book EXCEPT
           !.yielded = Append(@, [for |-> rt_turn.resp,
                                  of |-> Head(event_queue).response,
                                  type |-> Head(event_queue).type])]
    /\ rt_turn' = [rt_turn EXCEPT
           !.pos = IF Head(event_queue).type = "turn_complete"
                   THEN "done" ELSE "stream"]
    /\ UNCHANGED <<is_connected, rt_ws, listener_task, rt_caller, upstream>>
    /\ UNCHANGED RtFrame

\* The drain of cancel_response (openai_realtime.py:185-189) on the queue q.
cancel_response_drain(q) == <<>>

\* An interrupt (routes.py:122-126): the turn in flight is cancelled, then
\* cancel_response (openai_realtime.py:179-189) sends response.cancel and
\* empties the event queue when the adapter is connected; the send raises on
\* a closed transport.  The upstream ends the response, with or without a
\* response.done.
RtInterrupt ==
    /\ rt_turn.pos \in {"stream", "done"}
    /\ rt_turn' = IF rt_turn.pos = "stream"
                  THEN [rt_turn EXCEPT !.pos = "cancelled"] ELSE rt_turn
    /\ IF is_connected /\ rt_ws # "None"
       THEN IF upstream.open
            THEN /\ \E done \in BOOLEAN :
                     upstream' =
                         [upstream EXCEPT
                             !.resp = 0,
                             !.wire = IF upstream.resp # 0 /\ done
                                      THEN Append(@, ServerEvent(
                                               "response.done", upstream.resp))
                                      ELSE @]
                 /\ event_queue' = cancel_response_drain(event_queue)
                 /\ rt_book' = [rt_book EXCEPT
                        !.cancelled = IF rt_turn.pos = "stream"
                                      THEN @ \cup {rt_turn.resp} ELSE @]
            ELSE UNCHANGED <<upstream, event_queue, rt_book>>
       ELSE /\ rt_book' = [rt_book EXCEPT
                   !.cancelled = IF rt_turn.pos = "stream"
                                 THEN @ \cup {rt_turn.resp} ELSE @]
            /\ UNCHANGED <<upstream, event_queue>>
    /\ UNCHANGED <<is_connected, rt_ws, listener_task, rt_caller>>
    /\ UNCHANGED RtFrame

DeltaTypes ==
    {"response.output_audio.delta", "response.output_audio_transcript.delta"}

\* The adapter as main.py creates it (lifespan, main.py:34-62), before
\* connect is called.
InitRealtime ==
    /\ persona_defaults = get_persona_defaults("default")
    /\ llm_script = <<>>
    /\ tts_durs = {}
    /\ user_controls = {}
    /\ update_controls = {}
    /\ turn_limit = 0
    /\ token_limit = 0
    /\ NewAdapter
    /\ conn2 = NoSecond
    /\ NoCall
    /\ InitSession

NextRealtime ==
    \/ connect
    \/ connect_created
    \/ connect_failed
    \/ listen
    \/ close
    \/ \E t \in DeltaTypes : UpstreamDelta(t)
    \/ UpstreamDone
    \/ UpstreamError
    \/ UpstreamClose
    \/ RtUserText
    \/ stream_events
    \/ RtInterrupt

SpecRealtime == InitRealtime /\ [][NextRealtime]_vars

\* The event loop runs a task that is ready: the listener reads a message
\* that has arrived, stream_events hands on an event that is queued, connect
\* gets its answer, and the upstream ends a response it is generating.
RtFairness ==
    /\ WF_vars(listen)
    /\ WF_vars(stream_events)
    /\ WF_vars(connect_created)
    /\ WF_vars(UpstreamDone)

SpecRealtimeLive == InitRealtime /\ [][NextRealtime]_vars /\ RtFairness

\* ------------------------------------------------- a second connection
\* A second client connects to /v1/sessions/SessionId/stream while the first
\* connection is open: session_stream (api/routes.py:62-143) runs once more,
\* with its own output_q and loops, on the Session object get_or_404 returns.
\* The second client sends interrupt or closes; it sends no user_text.

Frame2 ==
    <<persona_defaults, llm_script, tts_durs, user_controls, update_controls,
      turn_limit, token_limit, callVars, rtVars, pending_control, history,
      drift, connVars, enq, nturns, tpc, tctl, resolved, must_run, pk, buf,
      full_response, sq, nck, chunk, fi, base_idx, frame_counter, tts_calls,
      gen_failed, msg_ctl, upd_seen, last_update, llm_request,
      upd_replaced>>

\* The handshake of the second connection (routes.py:67-74).
Connect2 ==
    /\ conn2.ws = <<"new">>
    /\ IF sm_get_or_404(sessions, SessionId) = <<"KeyError">>
       THEN conn2' = [conn2 EXCEPT
                         !.ws = <<"closed", 4004, "Session not found">>]
       ELSE conn2' = [conn2 EXCEPT !.ws = <<"accepted">>, !.rpc = "recv"]
    /\ NoCancel
    /\ UNCHANGED <<state, current_turn_task, sessions>>
    /\ UNCHANGED Frame2

\* The end of the second connection once its last cancel_current_turn has
\* returned (session.py:60-61, routes.py:143).
CloseSession2 ==
    /\ state' = "IDLE"
    /\ current_turn_task' = 0
    /\ sessions' = sessions \ {SessionId}
    /\ conn2' = [conn2 EXCEPT !.rpc = "closed", !.awaiting = 0]

\* cancel_current_turn (session.py:53-61) called by a handler of the second
\* connection that then ends the connection: pos is where recv_loop waits
\* for the cancelled task.
CancelAndClose2(pos) ==
    /\ must_run = 0
    /\ conn2.rpc = "recv"
    /\ IF LiveTask
       THEN /\ CancelTask(current_turn_task)
            /\ conn2' = [conn2 EXCEPT !.rpc = pos,
                                      !.awaiting = current_turn_task]
            /\ UNCHANGED <<state, current_turn_task, sessions>>
       ELSE CloseSession2 /\ NoCancel
    /\ UNCHANGED Frame2

\* The second client sends interrupt (routes.py:122-126): the turn is
\* cancelled, orch.realtime raises AttributeError and the finally block runs.
Interrupt2 == CancelAndClose2("cancel_interrupt")

\* The second client closes its transport (routes.py:132-143).
Disconnect2 == CancelAndClose2("cancel_close")

\* The task the second connection cancelled has settled.
Settled2 ==
    /\ must_run = 0
    /\ conn2.rpc \in {"cancel_interrupt", "cancel_close"}
    /\ tpc[conn2.awaiting] = "done"
    /\ CloseSession2
    /\ NoCancel
    /\ UNCHANGED Frame2

\* One session with its connection, and a second client about to connect to
\* the same session id.
InitShared ==
    /\ persona_defaults = get_persona_defaults("default")
    /\ llm_script = <<TokHello, TokHello>>
    /\ tts_durs = {40}
    /\ user_controls = {TurnControl}
    /\ update_controls = {}
    /\ turn_limit = 1
    /\ token_limit = 2
    /\ NewAdapter
    /\ conn2 = [NoSecond EXCEPT !.ws = <<"new">>]
    /\ NoCall
    /\ InitSession

NextShared ==
    \/ \E c \in user_controls : RecvUserText(c)
    \/ SendLoop
    \/ \E n \in Turns : TurnStep(n)
    \/ Connect2
    \/ Interrupt2
    \/ Disconnect2
    \/ Settled2

SpecShared == InitShared /\ [][NextShared]_vars

\* ------------------------------------------------------- several updates
\* A client that sends control_update events with two controls, one that
\* sets the emotion only and one that sets the character only, and user_text
\* events without a control of their own.

\* A control_update that sets the emotion only.
HappyOnly ==
    [emotion |-> [EmotionControl EXCEPT !.label = "happy"],
     character |-> CharacterControl]

\* A control_update that sets the character only.
FastOnly ==
    [emotion |-> EmotionControl,
     character |-> [CharacterControl EXCEPT !.speech_rate = 120]]

InitUpdates ==
    /\ persona_defaults = get_persona_defaults("default")
    /\ llm_script = <<TokHello, TokHello>>
    /\ tts_durs = {40}
    /\ user_controls = {TurnControl}
    /\ update_controls = {HappyOnly, FastOnly}
    /\ turn_limit = 1
    /\ token_limit = 2
    /\ NewAdapter
    /\ conn2 = NoSecond
    /\ NoCall
    /\ InitSession

NextUpdates ==
    \/ \E c \in user_controls : RecvUserText(c)
    \/ \E c \in update_controls : RecvControlUpdate(c)
    \/ SendLoop
    \/ \E n \in Turns : TurnStep(n)

SpecUpdates == InitUpdates /\ [][NextUpdates]_vars

\* ------------------------------------------------------------------ claims

\* The positions in the sequence of enqueued events of the events of turn n,
\* and of those of type t.
PosTurn(n) == {i \in 1..Len(enq) : enq[i].turn = n}
Pos(n, t) == {i \in PosTurn(n) : enq[i].type = t}

\* The position of the first audio_chunk of turn n after position i, or one
\* past the end.
NextAudio(n, i) ==
    LET later == {j \in Pos(n, "audio_chunk") : j > i}
    IN  IF later = {} THEN Len(enq) + 1
        ELSE CHOOSE j \in later : \A k \in later : j <= k

\* The video frames that follow the audio_chunk at position i of turn n.
FramesOf(n, i) ==
    {k \in Pos(n, "video_frame") : i < k /\ k < NextAudio(n, i)}

\* C1: within a turn every audio_chunk is followed by all the video frames
\* derived from it, in increasing frame_index order, before the next
\* audio_chunk of the turn is enqueued, with only text_delta events in
\* between; a turn_complete is the last event of its turn.
C1_Grammar ==
    \A n \in Turns :
        /\ \A i \in Pos(n, "audio_chunk") :
              LET nxt == NextAudio(n, i)
                  vids == FramesOf(n, i)
              IN  /\ nxt <= Len(enq) =>
                        /\ \A k \in PosTurn(n) :
                              i < k /\ k < nxt =>
                                enq[k].type \in {"video_frame", "text_delta"}
                        /\ Cardinality(vids) = frames(enq[i].duration_ms)
                  /\ \A k \in vids :
                        /\ enq[k].timestamp_ms = enq[i].timestamp_ms
                              + Cardinality({j \in vids : j < k})
                                * frame_duration_ms
                        /\ \A j \in vids :
                              j < k => enq[j].frame_index < enq[k].frame_index
        /\ \A k \in Pos(n, "video_frame") :
              \E i \in Pos(n, "audio_chunk") : i < k
        /\ \A i \in Pos(n, "turn_complete") :
              /\ \A k \in PosTurn(n) : k <= i
              /\ \A a \in Pos(n, "audio_chunk") :
                    Cardinality(FramesOf(n, a)) = frames(enq[a].duration_ms)

\* C2: every event of turn N is enqueued before every event of turn N+1.
C2_TurnOrder ==
    \A i, j \in 1..Len(enq) : i < j => enq[i].turn <= enq[j].turn

\* C3: for a turn cancelled while its task was not done, neither a
\* turn_complete nor an error event is ever enqueued.
C3_CancelSilent ==
    \A n \in cancelled_live :
        Pos(n, "turn_complete") = {} /\ Pos(n, "error") = {}

\* C4: a turn in which a generator failed has exactly one error event, of
\* code turn_error, no turn_complete, and none of its events is enqueued
\* after the error event.
C4_ErrorEndsTurn ==
    \A n \in Turns :
        \A i \in Pos(n, "error") :
            /\ Pos(n, "error") = {i}
            /\ enq[i].code = "turn_error"
            /\ Pos(n, "turn_complete") = {}
            /\ \A k \in PosTurn(n) : k <= i

\* C5: once the error event of a turn in which a generator raised has been
\* enqueued (the turn was not cancelled and no later event of the client has
\* been handled) the session state is back to IDLE.
C5_ErrorThenIdle ==
    \A n \in Turns :
        (/\ nturns = n
         /\ n \notin cancelled_live
         /\ rpc = "recv"
         /\ Pos(n, "error") # {}) => state = "IDLE"

\* The control turn n has to run with, from the events received: the
\* control of its user_text, merged over the control_update stored since the
\* user_text before it, if there is one.
ExpectedControl(n) ==
    IF upd_seen[n] = NoControl THEN msg_ctl[n][1]
    ELSE merge_controls(upd_seen[n][1], msg_ctl[n][1])

\* C6: a control_update does not change the control of a turn already
\* started; it is merged into exactly the next user_text, pending_control is
\* None once that user_text has been handled, and the user_text after it
\* runs with its own control.
C6_ControlUpdate ==
    /\ \A n \in 1..nturns :
          /\ tctl[n] = <<ExpectedControl(n)>>
          /\ resolved[n] # NoControl =>
                resolved[n] = <<resolve(ExpectedControl(n), persona_defaults)>>
    /\ pending_control = last_update

\* A control_update arrived while turn 1 was in flight: turn 1 kept the
\* control of its user_text, turn 2 runs with the merged control, and
\* pending_control is None.
C6_Witness ==
    /\ nturns = 2
    /\ 1 \in cancelled_live
    /\ resolved[1] # NoControl
    /\ upd_seen[1] = NoControl
    /\ tctl[1] = msg_ctl[1]
    /\ upd_seen[2] = <<HappyFast>>
    /\ tctl[2] = <<merge_controls(HappyFast, msg_ctl[2][1])>>
    /\ tctl[2] # msg_ctl[2]
    /\ pending_control = NoControl

\* C7: after a control_update with emotion label happy and a character whose
\* only non-default field is speech_rate = 1.2, the turn of a following
\* user_text without a control runs with emotion label happy and
\* character.speech_rate 1.2.
C7_EffectiveControl ==
    \A n \in Turns :
        (/\ upd_seen[n] = <<HappyFast>>
         /\ msg_ctl[n] = <<TurnControl>>
         /\ resolved[n] # NoControl)
        => /\ resolved[n][1].emotion.label = "happy"
           /\ resolved[n][1].character.speech_rate = 120

C9_Merge ==
    (ret # <<>> /\ ret[1] = "merge_controls") =>
        /\ ret[2].emotion =
              IF arg_b.emotion # EmotionControl THEN arg_b.emotion
              ELSE IF arg_a.emotion # EmotionControl THEN arg_a.emotion
              ELSE EmotionControl
        /\ ret[2].character =
              IF arg_b.character # CharacterControl THEN arg_b.character
              ELSE IF arg_a.character # CharacterControl THEN arg_a.character
              ELSE CharacterControl

\* merge_controls was called with a default emotion in the override over a
\* non-default one in the base, and two different non-default characters:
\* the emotion is the base's, the character the override's.
C9_Witness ==
    /\ ret # <<>> /\ ret[1] = "merge_controls"
    /\ arg_b.emotion = EmotionControl
    /\ arg_a.emotion # EmotionControl
    /\ arg_b.character # CharacterControl
    /\ arg_a.character # CharacterControl
    /\ arg_a.character # arg_b.character
    /\ ret[2].emotion = arg_a.emotion
    /\ ret[2].character = arg_b.character

RECURSIVE FrameSum(_)
FrameSum(S) ==
    IF S = {} THEN 0
    ELSE LET i == CHOOSE x \in S : TRUE
             r == round(enq[i].duration_ms * 25, 1000)
         IN  (IF r < 1 THEN 1 ELSE r) + FrameSum(S \ {i})

\* C11: a completed turn has as many video frames as the sum over its audio
\* chunks of max(1, round(duration_ms / 1000 * 25)); each chunk is followed by
\* at least one frame, one of 80 ms by 2 frames and one of 1000 ms by 25.
C11_FrameCount ==
    \A n \in Turns :
        Pos(n, "turn_complete") # {} =>
            /\ Cardinality(Pos(n, "video_frame"))
                  = FrameSum(Pos(n, "audio_chunk"))
            /\ \A a \in Pos(n, "audio_chunk") :
                  LET c == Cardinality(FramesOf(n, a))
                  IN  /\ c >= 1
                      /\ enq[a].duration_ms = 80 => c = 2
                      /\ enq[a].duration_ms = 1000 => c = 25

\* A completed turn with a chunk of 20 ms (one frame), one of 80 ms and one of
\* 1000 ms: 28 frames.
C11_Witness ==
    \E n \in Turns :
        /\ Pos(n, "turn_complete") # {}
        /\ {enq[a].duration_ms : a \in Pos(n, "audio_chunk")} = {20, 80, 1000}
        /\ Cardinality(Pos(n, "video_frame")) = 28

\* C12: once the turn cancelled by an interrupt has settled, the session
\* state is IDLE, no turn task is left, the session is still registered and
\* the receive loop awaits the next event of the client, so that a user_text
\* starts a new turn on the same connection.
C12_InterruptKeepsOpen ==
    [][(rpc = "cancel_interrupt" /\ rpc' # "cancel_interrupt") =>
            /\ state' = "IDLE"
            /\ current_turn_task' = 0
            /\ SessionId \in sessions'
            /\ rpc' = "recv"
            /\ spc' = spc]_vars

\* C13: whenever cancel_current_turn returns (in the user_text handler, or
\* at the end of the connection, where after an interrupt it is called a
\* second time), whatever the session state was and with or without a live
\* task, the task that was current has settled, the state is IDLE and the
\* handle is None (the user_text handler then stores the new task in it).
C13_CancelReturns ==
    [][(nturns' # nturns \/ (rpc # "closed" /\ rpc' = "closed")) =>
            /\ current_turn_task # 0 => tpc[current_turn_task] = "done"
            /\ state' = "IDLE"
            /\ current_turn_task' = IF nturns' # nturns THEN nturns' ELSE 0
      ]_vars

\* cancel_current_turn has returned with a live task (turn 1, cancelled by
\* the second user_text) and, at the end of the connection, without one (the
\* task of turn 2 was done, having set the state to TURN_COMPLETE).
C13_Witness ==
    /\ nturns = 2
    /\ 1 \in cancelled_live
    /\ 2 \notin cancelled_live
    /\ Pos(2, "turn_complete") # {}
    /\ rpc = "closed"
    /\ state = "IDLE"
    /\ current_turn_task = 0

\* The text of the text_delta events of turn n among the first i events.
RECURSIVE TextOf(_, _)
TextOf(n, i) ==
    IF i = 0 THEN <<>>
    ELSE TextOf(n, i - 1)
         \o (IF enq[i].turn = n /\ enq[i].type = "text_delta"
             THEN enq[i].token ELSE <<>>)

\* Turn n succeeded: it was not cancelled and its generators are through
\* (turn_complete is enqueued or about to be).
Succeeded(n) ==
    /\ n \notin cancelled_live
    /\ Pos(n, "turn_complete") # {} \/ tpc[n] = "put_complete"

\* The entries the claim gives turn n: the user entry once the turn runs,
\* the assistant entry once it has succeeded.
EntriesOf(n) ==
    (IF resolved[n] # NoControl
     THEN <<[role |-> "user", content |-> UserText(n)]>> ELSE <<>>)
    \o (IF Succeeded(n)
        THEN <<[role |-> "assistant", content |-> TextOf(n, Len(enq))]>>
        ELSE <<>>)

RECURSIVE HistoryUpTo(_)
HistoryUpTo(n) == IF n = 0 THEN <<>> ELSE HistoryUpTo(n - 1) \o EntriesOf(n)

MustHave(n) ==
    /\ TextOf(n, Len(enq)) # <<>>
    /\ Pos(n, "turn_complete") # {} \/ tpc[n] = "put_complete"

\* Turn n may have appended it: as above, or it yielded text and was
\* cancelled after both its sub-tasks had finished.
MayHave(n) ==
    \/ MustHave(n)
    \/ /\ TextOf(n, Len(enq)) # <<>>
       /\ outer[n] = "ok"
       /\ tpc[n] = "done"
       /\ n \in cancelled_live

\* The history in which exactly the turns n with f[n] have an assistant entry.
RECURSIVE HistoryWith(_, _)
HistoryWith(f, n) ==
    IF n = 0 THEN <<>>
    ELSE HistoryWith(f, n - 1)
         \o (IF resolved[n] # NoControl
             THEN <<[role |-> "user", content |-> UserText(n)]>> ELSE <<>>)
         \o (IF f[n]
             THEN <<[role |-> "assistant", content |-> TextOf(n, Len(enq))]>>
             ELSE <<>>)

C15_CompleteOrder ==
    [][\A n \in Turns :
          /\ Cardinality(Pos(n, "turn_complete")') <= 1
          /\ (Pos(n, "turn_complete") = {} /\ Pos(n, "turn_complete")' # {}) =>
                /\ state' = "TURN_COMPLETE"
                /\ TextOf(n, Len(enq)) # <<>> =>
                      /\ history' # <<>>
                      /\ history'[Len(history')]
                            = [role |-> "assistant",
                               content |-> TextOf(n, Len(enq))]
      ]_vars

\* The segments pushed to the sentence queue of turn n so far: those TTS was
\* called with and those still queued.
Pushed(n) == tts_calls[n] \o SelectSeq(sq[n], LAMBDA x : x # Sentinel)

\* The segments the claim's rule makes of the tokens toks, from the buffer b
\* on; with atEnd the rest of the buffer is a segment too.
RECURSIVE Segments(_, _, _)
Segments(toks, b, atEnd) ==
    IF toks = <<>>
    THEN IF atEnd /\ strip(b) # <<>> THEN <<strip(b)>> ELSE <<>>
    ELSE LET t == Head(toks)
             b1 == b \o t
         IN  IF t[Len(t)] \in {".", "!", "?", "\n"} /\ Len(strip(b1)) >= 10
             THEN <<strip(b1)>> \o Segments(Tail(toks), <<>>, atEnd)
             ELSE Segments(Tail(toks), b1, atEnd)

IsPrefix(a, b) == Len(a) <= Len(b) /\ a = SubSeq(b, 1, Len(a))

\* C16: a segment is pushed to the sentence queue exactly when a token ends
\* in one of . ! ? newline with a trimmed buffer of at least 10 characters,
\* and at the end of the LLM stream if the trimmed buffer is not empty; no
\* segment is empty; TTS is called once per segment in push order; of the
\* tokens "Dr.", " Smith", " arrived.", " Done." the first causes no flush
\* and TTS is called at most twice.
C16_SentenceFlush ==
    \A n \in Turns :
        LET toks == SubSeq(llm_script, 1, pk[n])
        IN  /\ ppc[n] = "pull" => Pushed(n) = Segments(toks, <<>>, FALSE)
            /\ ppc[n] = "done_ok" => Pushed(n) = Segments(toks, <<>>, TRUE)
            /\ IsPrefix(Pushed(n), Segments(toks, <<>>, TRUE))
            /\ \A i \in 1..Len(Pushed(n)) : Pushed(n)[i] # <<>>
            /\ cpc[n] = "done_ok" =>
                  tts_calls[n] = Segments(toks, <<>>, TRUE)
            /\ llm_script = ScriptDr =>
                  /\ Len(tts_calls[n]) <= 2
                  /\ (pk[n] \in 1..2 /\ ppc[n] = "pull") => Pushed(n) = <<>>

\* The turn of the tokens "Dr.", " Smith", " arrived.", " Done." is over: TTS
\* was called with "Dr. Smith arrived." and then with "Done.".
C16_Witness ==
    /\ llm_script = ScriptDr
    /\ Pos(1, "turn_complete") # {}
    /\ tts_calls[1]
         = <<<<"D", "r", ".", " ", "S", "m", "i", "t", "h", " ", "a", "r", "r",
               "i", "v", "e", "d", ".">>,
             <<"D", "o", "n", "e", ".">>>>

\* C17: at every moment at most one turn task is live, and at most one
\* llm_producer and one tts_avatar_consumer sub-task are running.
C17_OneTurnAtATime ==
    /\ Cardinality({n \in Turns : tpc[n] \notin {"none", "done"}}) <= 1
    /\ Cardinality({n \in Turns : ppc[n] \notin {"none"} \cup Finished}) <= 1
    /\ Cardinality({n \in Turns : cpc[n] \notin {"none"} \cup Finished}) <= 1

\* C18: with finite streams that do not fail and a send task that goes on, a
\* turn, also one started by barge-in, leads to its turn_complete being
\* enqueued with the session in TURN_COMPLETE, unless a later user_text is
\* handled first.
C18_TurnCompletes ==
    \A n \in Turns :
        (tpc[n] = "start")
            ~> \/ Pos(n, "turn_complete") # {} /\ state = "TURN_COMPLETE"
               \/ nturns > n

\* Turn 2, started by barge-in while turn 1 was in flight with a token
\* pulled, has enqueued its turn_complete.
C18_Witness ==
    /\ 1 \in cancelled_live
    /\ pk[1] >= 1
    /\ Pos(1, "turn_complete") = {}
    /\ Pos(2, "turn_complete") # {}
    /\ state = "TURN_COMPLETE"

\* No task of the session is running: the send task, the turn tasks and their
\* sub-tasks are all finished.
NoTaskRunning ==
    /\ spc = "cancelled"
    /\ \A n \in Turns :
          /\ tpc[n] \in {"none", "done"}
          /\ ppc[n] \in {"none"} \cup Finished
          /\ cpc[n] \in {"none"} \cup Finished

\* C19: once the connection is closed, the send task is cancelled (nothing
\* more is written to the transport), the turn in flight is cancelled and
\* settled, no task of the session is running and the session id is no
\* longer registered.
C19_CloseStopsAll ==
    rpc = "closed" => NoTaskRunning /\ SessionId \notin sessions

\* The operations before the last one.
Before == SubSeq(oplog, 1, Len(oplog) - 1)

\* id was created and not closed since, by the operations ops.
RECURSIVE Live(_, _)
Live(ops, id) ==
    IF ops = <<>> THEN FALSE
    ELSE LET last == ops[Len(ops)]
         IN  IF last[2] = id /\ last[1] = "create" THEN TRUE
             ELSE IF last[2] = id /\ last[1] = "close" THEN FALSE
             ELSE Live(SubSeq(ops, 1, Len(ops) - 1), id)

\* C20: after any sequence of create and close, create has returned an id
\* distinct from all earlier ones, get(id) returns the session of id exactly
\* while id is created and not closed and None otherwise, get_or_404 raises
\* KeyError for every other id, and close of an absent id leaves the registry
\* as it is.
C20_Registry ==
    /\ sessions = {id \in Ids : Live(oplog, id)}
    /\ ret # <<>> =>
          LET op == ret[1]
              id == ret[2]
          IN  /\ op = "create" =>
                    \A i \in 1..Len(Before) :
                        Before[i][1] = "create" => Before[i][2] # id
              /\ op = "get" =>
                    ret[3] = IF Live(Before, id) THEN <<id>> ELSE <<>>
              /\ op = "get_or_404" =>
                    ret[3] = IF Live(Before, id) THEN <<"ok", id>>
                             ELSE <<"KeyError">>
              /\ (op = "close" /\ ~Live(Before, id)) =>
                    sessions = {i \in Ids : Live(Before, i)}

\* Two sessions were created and the first was closed: get_or_404 of the
\* first raises KeyError while the second is still registered.
C20_Witness ==
    /\ Len(oplog) = 4
    /\ oplog[1][1] = "create" /\ oplog[2][1] = "create"
    /\ oplog[3] = <<"close", oplog[1][2]>>
    /\ ret = <<"get_or_404", oplog[1][2], <<"KeyError">>>>
    /\ sessions = {oplog[2][2]}

\* C21: a connection attempt for a session id that is not registered is closed
\* with code 4004 and reason "Session not found" without being accepted: the
\* registry is unchanged, and neither then nor later is there an outbound
\* event, a send task, a receive loop or a turn task.
C21_NotFound ==
    /\ [][(ws = <<"new">> /\ ws' # ws /\ SessionId \notin sessions) =>
              /\ ws' = <<"closed", 4004, "Session not found">>
              /\ sessions' = sessions]_vars
    /\ [](ws # <<"accepted">> =>
              /\ rpc = "none" /\ spc = "none"
              /\ enq = <<>> /\ nturns = 0 /\ current_turn_task = 0
              /\ \A n \in Turns : tpc[n] = "none")

\* The session was created and closed again, two others are registered, and
\* the attempt was refused with 4004.
C21_Witness ==
    /\ ws = <<"closed", 4004, "Session not found">>
    /\ SessionId \in Issued
    /\ Cardinality(sessions) = 2
    /\ rpc = "none" /\ spc = "none"

\* The frames the claim calls invalid: no JSON object, a type that is none
\* of the three, or a field missing or out of its range.
InRange(x, lo, hi) == lo <= x /\ x <= hi

SchemaOk(c) ==
    /\ c.emotion.label \in {"neutral", "happy", "sad", "angry", "surprised",
                             "fearful", "disgusted"}
    /\ InRange(c.emotion.intensity, 0, 100)
    /\ InRange(c.emotion.valence, -100, 100)
    /\ InRange(c.emotion.arousal, -100, 100)
    /\ InRange(c.character.speech_rate, 25, 400)
    /\ InRange(c.character.pitch_shift, -100, 100)
    /\ InRange(c.character.expressivity, 0, 100)
    /\ InRange(c.character.motion_gain, 0, 200)

Invalid(m) ==
    \/ m.json # "object"
    \/ m.type \notin {"user_text", "interrupt", "control_update"}
    \/ m.type = "user_text" /\ ~m.text
    \/ m.type = "control_update" /\ m.control = <<>>
    \/ m.type \in {"user_text", "control_update"}
          /\ m.control # <<>> /\ ~SchemaOk(m.control[1])

\* C22: a frame that is not valid JSON, has an unknown type or fails the
\* schema is dropped: the session state, pending_control, the history, the
\* turn task and its sub-tasks and the outbound queue are unchanged, nothing
\* is enqueued, and recv_loop awaits the next frame.
C22_InvalidDropped ==
    [][(raw' # raw /\ Invalid(raw'[1])) =>
            /\ UNCHANGED <<sessVars, enq, nsent, written, taskVars, prodVars,
                           sq, consVars, pendcb, cancelled_live>>
            /\ rpc = "recv" /\ rpc' = "recv"
            /\ spc' = spc
      ]_vars

\* A user_text with a control out of range was the last frame read while the
\* turn was in flight, one token pulled, with a control_update pending: the
\* turn task still awaits its sub-tasks, no second turn was started and the
\* pending control is still the one of the update.
C22_Witness ==
    /\ raw # <<>>
    /\ raw[1] = Message("object", "user_text", TRUE, <<TooIntense>>)
    /\ nturns = 1
    /\ tpc[1] = "gather"
    /\ pk[1] = 1
    /\ pending_control = <<HappyFast>>
    /\ rpc = "recv"

\* The sum of the last k elements of the sequence q.
RECURSIVE SumLast(_, _)
SumLast(q, k) ==
    IF k = 0 \/ q = <<>> THEN 0
    ELSE q[Len(q)] + SumLast(SubSeq(q, 1, Len(q) - 1), k - 1)

\* C23: with the samples s1..sn recorded since the creation or the last
\* reset of the tracker, mean is (s1 + ... + sn) / n; with no sample, and
\* after reset, it is 0.
C23_Mean ==
    LET m == mean_drift_ms(drift)
        n == Len(oplog)
    IN  IF n = 0 THEN m[1] = 0
        ELSE m[1] * n = SumLast(oplog, n) * m[2]

\* C23 as amended: mean is the mean of the last min(n, 10) samples recorded
\* since the creation or the last reset; with no sample, and after reset, it
\* is 0.
C23_MeanAmended ==
    LET m == mean_drift_ms(drift)
        n == Len(oplog)
        k == IF n < 10 THEN n ELSE 10
    IN  /\ Len(drift) = k
        /\ IF n = 0 THEN m[1] = 0
           ELSE m[1] * k = SumLast(oplog, k) * m[2]
        /\ (ret # <<>> /\ ret[1] = "reset") => (n = 0 /\ m[1] = 0)

\* Eleven samples since the last reset, the first 10 and the others -10:
\* the mean is -10, not -90/11.
C23_Witness ==
    /\ Len(oplog) = 11
    /\ oplog[1] = 10
    /\ \A i \in 2..11 : oplog[i] = -10
    /\ mean_drift_ms(drift) = <<-100, 10>>

\* cancel_current_turn has returned for turn n, cancelled while in flight:
\* the handler that cancelled it has gone on.
CancelReturned(n) ==
    /\ n \in cancelled_live
    /\ ~(current_turn_task = n
         /\ rpc \in {"cancel_user_text", "cancel_interrupt", "cancel_close"})

\* C24: once cancel_current_turn has returned for a turn in flight, the turn
\* task and both its sub-tasks have stopped, and in no later step is an
\* event of that turn enqueued or the drift tracker or the history changed
\* by it.
C24_CancelStopsSubtasks ==
    /\ [](\A n \in Turns :
            CancelReturned(n) =>
                /\ tpc[n] = "done"
                /\ ppc[n] \in {"none"} \cup Finished
                /\ cpc[n] \in {"none"} \cup Finished)
    /\ [][\A n \in Turns :
            CancelReturned(n) =>
                /\ PosTurn(n)' = PosTurn(n)
                /\ <<pk[n], nck[n], fi[n], frame_counter[n]>>'
                      = <<pk[n], nck[n], fi[n], frame_counter[n]>>]_vars

\* C25: when a turn in flight is cancelled, by an interrupt or by the next
\* user_text, the session state is INTERRUPTED until cancel_current_turn
\* returns, and IDLE from then on.
C25_InterruptedThenIdle ==
    [][(/\ rpc \in {"cancel_user_text", "cancel_interrupt"}
        /\ rpc' \notin {"cancel_user_text", "cancel_interrupt"})
       => (state = "INTERRUPTED" /\ state' = "IDLE")]_vars

\* C26: the state leaves IDLE for LLM_RUN only, changes from LLM_RUN to
\* TTS_RUN only once a segment of the turn has been pushed to the sentence
\* queue, and is never TTS_RUN while no segment of the turn has been pushed.
C26_TtsAfterFlush ==
    /\ [][/\ (state = "IDLE" /\ state' # "IDLE") => state' = "LLM_RUN"
          /\ (state = "LLM_RUN" /\ state' = "TTS_RUN") =>
                \E n \in Turns : Pushed(n) # <<>>]_vars
    /\ [](state = "TTS_RUN" => \E n \in Turns : Pushed(n) # <<>>)

\* C27: the state enters AVATAR_RUN with each audio chunk and is back at
\* TTS_RUN when the frames of the chunk are done, so that TURN_COMPLETE is
\* entered from TTS_RUN only.
C27_CompleteFromTts ==
    /\ [][(state # "TURN_COMPLETE" /\ state' = "TURN_COMPLETE") =>
              state = "TTS_RUN"]_vars
    /\ [](\A n \in Turns :
            (current_turn_task = n /\ cpc[n] = "tts_pull") =>
                state = "TTS_RUN")

\* The sentinels among the items of the sequence q.
Sentinels(q) == {i \in 1..Len(q) : q[i] = Sentinel}

\* C28: in a turn whose LLM stream ends without failure the producer pushes
\* the sentinel exactly once, after every segment of the turn; the consumer
\* calls TTS once for each segment, in the order of the pushes, and stops
\* exactly when it pulls the sentinel.
C28_Sentinel ==
    \A n \in Turns :
        LET toks == SubSeq(llm_script, 1, pk[n])
            all == Segments(toks, <<>>, TRUE)
        IN  /\ Cardinality(Sentinels(sq[n])) <= 1
            /\ Sentinels(sq[n]) \subseteq {Len(sq[n])}
            /\ Sentinels(sq[n]) # {} => ppc[n] = "done_ok"
            /\ \A i \in 1..Len(tts_calls[n]) : tts_calls[n][i] # Sentinel
            /\ IsPrefix(tts_calls[n], all)
            /\ ppc[n] = "done_ok" =>
                  /\ Pushed(n) = all
                  /\ Sentinels(sq[n]) = {} => cpc[n] = "done_ok"
                  /\ Sentinels(sq[n]) # {} =>
                        cpc[n] \notin {"none", "done_ok"}
            /\ cpc[n] = "done_ok" =>
                  /\ ppc[n] = "done_ok"
                  /\ sq[n] = <<>>
                  /\ tts_calls[n] = all

\* The turn of the tokens "Dr.", " Smith", " arrived.", " Done." with both
\* sub-tasks through: two segments went through the sentence queue, TTS was
\* called twice and the queue is empty.
C28_Witness ==
    /\ llm_script = ScriptDr
    /\ ppc[1] = "done_ok"
    /\ cpc[1] = "done_ok"
    /\ Len(tts_calls[1]) = 2
    /\ sq[1] = <<>>

\* In this step a sub-task of turn n gets a token, an audio chunk or a video
\* frame from its generator.
PullsToken(n) == pk'[n] = pk[n] + 1
PullsChunk(n) == cpc[n] = "tts_pull" /\ nck'[n] = nck[n] + 1
PullsFrame(n) ==
    cpc[n] = "av_pull" /\ (cpc'[n] = "put_video" \/ fi'[n] = fi[n] + 1)

\* The queues hold at most as many items as their capacities.
QueuesBounded ==
    /\ \A n \in Turns : Len(sq[n]) <= 2
    /\ Len(enq) - nsent <= OutQCap

C30_WrittenPrefix ==
    /\ [](IsPrefix(written, enq) /\ Len(written) <= nsent)
    /\ [][written' # written =>
            /\ written' = Append(written, enq[Len(written) + 1])
            /\ spc = "send"]_vars
    /\ [][spc = "returned" =>
            spc' = "returned" /\ written' = written /\ nsent' = nsent]_vars

\* A write failed after events of the turn had been written: the failed
\* event and the events enqueued behind it are never written.
C30_Witness ==
    /\ spc = "returned"
    /\ Len(written) >= 1
    /\ nsent = Len(written) + 1
    /\ Len(enq) > nsent
    /\ written = SubSeq(enq, 1, Len(written))

\* C31: resolve(user, persona) takes the emotion from user when it differs
\* from EmotionControl() and the character from user when it differs from
\* CharacterControl() in any field, and from persona otherwise.
C31_ResolveStructural ==
    (ret # <<>> /\ ret[1] = "resolve") =>
        /\ ret[2].emotion = IF arg_a.emotion # EmotionControl
                            THEN arg_a.emotion ELSE arg_b.emotion
        /\ ret[2].character = IF arg_a.character # CharacterControl
                              THEN arg_a.character ELSE arg_b.character

\* The largest magnitude among the last k entries of q (0 for none).
MaxAbsLast(q, k) ==
    LET S == {IF q[i] < 0 THEN -q[i] ELSE q[i] : i \in (Len(q) - k + 1)..Len(q)}
    IN  IF S = {} THEN 0 ELSE CHOOSE x \in S : \A y \in S : y <= x

\* C32: the window of the drift tracker never holds more than 10 samples;
\* after more than 10 updates since the last reset it holds exactly the 10
\* most recent samples in arrival order, and mean and max_abs are those of
\* these 10 samples.
C32_Window ==
    LET n == Len(oplog)
    IN  /\ Len(drift) <= 10
        /\ n > 10 =>
            /\ Len(drift) = 10
            /\ \A i \in 1..10 : drift[i] = oplog[n - 10 + i]
            /\ mean_drift_ms(drift)[1] * 10 =
                   SumLast(oplog, 10) * mean_drift_ms(drift)[2]
            /\ max_drift_ms(drift) = MaxAbsLast(oplog, 10)

\* Eleven samples since the last reset, the first of 50 ms and the others of
\* 10 and -10: the window has dropped the first, and max_abs is 10.
C32_Witness ==
    /\ Len(oplog) = 11
    /\ oplog[1] = 50
    /\ oplog[2] = -10
    /\ \A i \in 3..11 : oplog[i] = 10
    /\ Len(drift) = 10
    /\ drift[1] = -10
    /\ max_drift_ms(drift) = 10
    /\ mean_drift_ms(drift) = <<80, 10>>

\* C33: a call of connect on a connected adapter opens no transport, starts
\* no listener task and leaves the event queue as it is; a transport is
\* opened and a listener started only by a connect that found the adapter
\* not connected; and no step of a turn calls connect.
C33_ConnectOnce ==
    [][/\ (rt_book.connects' # rt_book.connects /\ is_connected) =>
              /\ rt_book.transports' = rt_book.transports
              /\ rt_book.listeners' = rt_book.listeners
              /\ rt_caller' = rt_caller
              /\ rt_ws' = rt_ws
              /\ listener_task' = listener_task
              /\ upstream' = upstream
              /\ event_queue' = event_queue
       /\ (\/ rt_book.transports' # rt_book.transports
           \/ rt_book.listeners' # rt_book.listeners) => ~is_connected
       /\ rt_turn' # rt_turn => rt_book.connects' = rt_book.connects]_vars

\* connect was called on the connected adapter while events were queued: one
\* transport and one listener, and the events are still queued.
C33_Witness ==
    /\ rt_book.skipped = 1
    /\ rt_book.connects = 2
    /\ rt_book.transports = 1
    /\ rt_book.listeners = 1
    /\ is_connected
    /\ listener_task = "running"
    /\ Len(event_queue) = 2
    /\ rt_turn.pos = "stream"

\* C34: once cancel_response was called for a response, stream_events yields
\* no event of that response (text_delta, audio_chunk or turn_complete) to a
\* later turn, whether the listener queued it before or after the drain.
C34_NoStaleEvents ==
    \A i \in 1..Len(rt_book.yielded) :
        rt_book.yielded[i].of \in rt_book.cancelled
            => rt_book.yielded[i].for = rt_book.yielded[i].of

\* C35: when the upstream ends the response of the turn with an error event,
\* or closes the connection while it generates that response, the turn
\* waiting in stream_events is ended by a failure (or cancelled by the
\* client): it does not wait for a turn_complete forever.
C35_FailureSignal ==
    (rt_turn.pos = "stream" /\ rt_turn.resp \in rt_book.broken)
        ~> (rt_turn.pos \in {"failed", "cancelled"})

\* C36: while the first connection is bound to the session, no step of a
\* second connection to the same session id cancels the turn of the first,
\* changes the session's current_turn_task or removes the session from the
\* registry.
C36_OneConnection ==
    [][(rpc = "recv" /\ conn2' # conn2) =>
           /\ cancelled_live' = cancelled_live
           /\ tcancel' = tcancel
           /\ current_turn_task' = current_turn_task
           /\ sessions' = sessions]_vars


\* C37: in every turn the request the LLM generator builds contains the
\* current user text exactly once: one message of role "user" carries the
\* text of the turn.
C37_UserTextOnce ==
    \A n \in Turns :
        llm_request[n] # <<>> =>
            Cardinality({i \in 1..Len(llm_request[n]) :
                            /\ llm_request[n][i].role = "user"
                            /\ llm_request[n][i].content = UserText(n)}) = 1


\* C38: cancelling a turn removes no event from the outbound queue.  The step
\* that cancels leaves the queue and what was written as they are, with only
\* events of turns up to the cancelled one on the queue; the queue only grows
\* at its end; what is written is a prefix of it; and with a send task that
\* goes on, every event of a cancelled turn on the queue is written.
C38_CancelKeepsQueue ==
    /\ [][cancelled_live' # cancelled_live =>
            /\ enq' = enq
            /\ written' = written
            /\ nsent' = nsent
            /\ \A i \in 1..Len(enq) : enq[i].turn <= current_turn_task]_vars
    /\ [][Len(enq') >= Len(enq) /\ SubSeq(enq', 1, Len(enq)) = enq]_vars
    /\ [](IsPrefix(written, enq))
    /\ \A n \in Turns :
          (n \in cancelled_live)
              ~> (\A i \in PosTurn(n) : i <= Len(written))

\* Turn 1 was cancelled by a barge-in with events of it on the queue that
\* the send task had not yet written.
C38_Witness ==
    /\ 1 \in cancelled_live
    /\ rpc = "cancel_user_text"
    /\ PosTurn(1) # {}
    /\ \E i \in PosTurn(1) : i > Len(written)


\* C39: of several control_update events before a user_text, each replaces
\* the stored pending_control as a whole.  The step of a control_update
\* stores its control as it came; a turn whose user_text came after replaced
\* control_updates runs with the merge of the last control_update and the
\* control of the user_text, and a sub-control that only a replaced
\* control_update set is not in it.
C39_LastUpdateWins ==
    /\ [][(last_update' # last_update /\ last_update' # NoControl) =>
            pending_control' = last_update']_vars
    /\ [](\A n \in 1..nturns :
            upd_replaced.turn[n] # {} =>
               /\ upd_seen[n] # NoControl
               /\ tctl[n] =
                     <<merge_controls(upd_seen[n][1], msg_ctl[n][1])>>
               /\ tctl[n][1].emotion \in
                     {msg_ctl[n][1].emotion, upd_seen[n][1].emotion}
               /\ tctl[n][1].character \in
                     {msg_ctl[n][1].character, upd_seen[n][1].character})

\* control_update with the emotion happy, then control_update with the
\* speech rate 1.2, then user_text: the turn runs fast with the neutral
\* emotion of its user_text, and was resolved so.
C39_Witness ==
    /\ nturns = 1
    /\ upd_replaced.turn[1] = {HappyOnly}
    /\ upd_seen[1] = <<FastOnly>>
    /\ tctl[1] = <<FastOnly>>
    /\ tctl[1][1].emotion.label = "neutral"
    /\ resolved[1] # NoControl

====
